---- MODULE Spec2Model ----
(***************************************************************************)
(* PawSync: the workspace invite/join and role-provisioning flow of the    *)
(* Express server (routes + DatabaseStorage), modelled as a state machine. *)
(* The database tables are the state; every HTTP handler is a process that *)
(* advances one database call (one await) at a time, so that the awaits of *)
(* concurrent requests interleave as they do on the Node event loop.       *)
(***************************************************************************)
EXTENDS Integers, Sequences, FiniteSets, Bags, TLC

(* ------------------------------- bounds -------------------------------- *)
\* requests served in one run of the server
MaxRequests == 3

(* ------------------------------ constants ------------------------------ *)
Users == {"u1", "u2"}
Reqs == {"r1", "r2"}
NoUser == "nobody"
NoRole == "unset"
NoWs == 0
NullStr == <<"null">>
NoLoc == [ws |-> NoWs, trainer |-> NoUser, oc |-> FALSE, petId |-> 0, id |-> 0, left |-> 0,
          items |-> <<>>]
NoBody == [error |-> "", workspaceId |-> NoWs, alreadyMember |-> FALSE, inviteToken |-> <<>>,
           trainerName |-> NullStr, items |-> <<>>]

VARIABLES
    users,        \* table users: id -> role, onboardingComplete, firstName, lastName
    workspaces,   \* table workspaces: the row of id w is workspaces[w]
    members,      \* table workspace_members: a bag of rows (no unique constraint)
    pets,         \* table pets: the row of id p is pets[p]
    req,          \* the HTTP requests in flight and the last response of each connection
    served,       \* number of requests begun
    mig,          \* migrateToWorkspaces, run at startup
    concurrency,  \* how many requests the clients let overlap: 1 or 2
    joined,       \* history: the bag of <<user, workspace>> pairs of the joins answered with success
    tasks,        \* table homework_tasks: the row of id t is tasks[t]
    submissions,  \* table homework_submissions: the row of id s is submissions[s]
    comments,     \* table trainer_comments: the row of id c is comments[c]
    media,        \* tables task_media, submission_media and comment_media: the row of id m is media[m]
    cal,          \* the calendar of the pet page: its props, the clock, the day cell rendered last
    client        \* the browser of each user: session, cached user, location

vars == <<users, workspaces, members, pets, req, served, mig, concurrency, joined,
          tasks, submissions, comments, media, cal, client>>
\* the tables of the homework flow
work == <<tasks, submissions, comments, media>>
db == <<users, workspaces, members, pets, work>>
\* the state of the browsers, which no handler of the server reads or writes
front == <<cal, client>>

(* ------------------------- strings as sequences ------------------------ *)
RECURSIVE TrimStart(_)
TrimStart(s) == IF s # <<>> /\ Head(s) = " " THEN TrimStart(Tail(s)) ELSE s

RECURSIVE TrimEnd(_)
TrimEnd(s) == IF s # <<>> /\ s[Len(s)] = " " THEN TrimEnd(SubSeq(s, 1, Len(s) - 1)) ELSE s

Trim(s) == TrimEnd(TrimStart(s))

RECURSIVE SplitAcc(_, _)
SplitAcc(s, cur) ==
    IF s = <<>> THEN <<cur>>
    ELSE IF Head(s) = " " THEN <<cur>> \o SplitAcc(Tail(s), <<>>)
    ELSE SplitAcc(Tail(s), Append(cur, Head(s)))

Split(s) == SplitAcc(s, <<>>)

RECURSIVE JoinParts(_)
JoinParts(parts) ==
    IF parts = <<>> THEN <<>>
    ELSE IF Len(parts) = 1 THEN parts[1]
    ELSE parts[1] \o <<" ">> \o JoinParts(Tail(parts))

OrEmpty(s) == IF s = NullStr THEN <<>> ELSE s
OrNull(s) == IF s = <<>> THEN NullStr ELSE s

(* ------------------------------ inputs --------------------------------- *)
\* request bodies of POST /api/workspaces/trainer-profile
ProfileForms ==
    { [displayName |-> <<"S", " ", "J">>, businessName |-> <<"A">>, bio |-> <<"b">>],
      [displayName |-> <<" ", "S">>, businessName |-> <<>>, bio |-> <<>>],
      [displayName |-> <<" ">>, businessName |-> <<"A">>, bio |-> <<>>],
      [displayName |-> <<>>, businessName |-> <<>>, bio |-> <<"b">>] }

NoForm == [displayName |-> <<>>, businessName |-> <<>>, bio |-> <<>>]

Blank(displayName) == \A i \in 1..Len(displayName) : displayName[i] = " "

\* crypto.randomBytes(24).toString("base64url"): the n-th token drawn, never drawn before
InviteToken(n) == <<"tok", n>>

\* tokens a client may send: none, one no workspace has, or the token of a workspace
Tokens == {<<>>, <<"tok", 0>>} \cup {InviteToken(n) : n \in 1..MaxRequests}

NoArg == [token |-> <<>>, form |-> NoForm, workspaceId |-> NoWs, email |-> "", petId |-> 0,
          taskId |-> 0, mediaId |-> 0, submissionId |-> 0, isActive |-> "undefined",
          title |-> "undefined", media |-> 0, comment |-> "", file |-> FALSE, role |-> "",
          preferredDays |-> <<"undefined">>]

\* a browser that has not opened the application
NoClient == [signedIn |-> FALSE, user |-> [role |-> NoRole, onboardingComplete |-> FALSE],
             path |-> "", token |-> <<>>, waiting |-> "none"]

\* no calendar is shown
NoCal == [shown |-> FALSE]

Idle == [op |-> "none", pc |-> "idle", user |-> NoUser, arg |-> NoArg, loc |-> NoLoc,
         status |-> 0, body |-> NoBody]

(* --------------------------- DatabaseStorage ---------------------------- *)
WsIds == 1..Len(workspaces)

\* the tokens worth sending in the current state (an unissued token acts as <<"tok", 0>>)
SentTokens == {t \in Tokens : t = <<>> \/ t = <<"tok", 0>> \/ \E w \in WsIds : workspaces[w].inviteToken = t}

\* findFirst has no ORDER BY: any matching row may be the one returned
\* a lookup that does not compare the token: every workspace matches
getWorkspaceByTokenAny(token) == WsIds

getWorkspaceByToken(token) == {w \in WsIds : workspaces[w].inviteToken = token}

getWorkspaceByTrainer(trainerId) == {w \in WsIds : workspaces[w].trainerUserId = trainerId}

getWorkspace(id) == {w \in WsIds : w = id}

createWorkspace(trainerUserId, businessName, bio) ==
    Append(workspaces, [trainerUserId |-> trainerUserId,
                        inviteToken |-> InviteToken(Len(workspaces) + 1),
                        businessName |-> businessName, bio |-> bio])

updateWorkspace(id, businessName, bio) ==
    [workspaces EXCEPT ![id].businessName = businessName, ![id].bio = bio]

addWorkspaceMember(workspaceId, userId, role) ==
    members (+) SetToBag({[workspaceId |-> workspaceId, userId |-> userId, role |-> role]})

getWorkspaceMembers(workspaceId) == {m \in BagToSet(members) : m.workspaceId = workspaceId}

getUserWorkspaces(userId) == {m \in BagToSet(members) : m.userId = userId}

\* users.email is the user's id in this model; "" is no address
getUserByEmail(email) == {u \in DOMAIN users : u = email}

PetIds == 1..Len(pets)

getPet(id) == {p \in PetIds : p = id}

createPet(ownerId, trainerId, workspaceId) ==
    Append(pets, [ownerId |-> ownerId, trainerId |-> trainerId, workspaceId |-> workspaceId])

assignTrainer(petId, trainerId) == [pets EXCEPT ![petId].trainerId = trainerId]

\* number of workspace_members rows of a (workspace, user) pair
MemberRows(w, u) ==
    LET rows == {m \in BagToSet(members) : m.workspaceId = w /\ m.userId = u}
        RECURSIVE Sum(_)
        Sum(S) == IF S = {} THEN 0
                  ELSE LET m == CHOOSE x \in S : TRUE IN CopiesIn(m, members) + Sum(S \ {m})
    IN Sum(rows)

\* a join that sets the role only and leaves onboardingComplete as it was
updateUserJoinKeepOnboarding(id) == [users EXCEPT ![id].role = "OWNER"]

updateUserJoin(id) == [users EXCEPT ![id].role = "OWNER", ![id].onboardingComplete = FALSE]

updateUserProfile(id, firstName, lastName) ==
    [users EXCEPT ![id].firstName = firstName, ![id].lastName = lastName,
                  ![id].role = "TRAINER", ![id].onboardingComplete = TRUE]

updateUserTrainer(id) == [users EXCEPT ![id].role = "TRAINER"]

updateUserOnboarded(id) == [users EXCEPT ![id].onboardingComplete = TRUE]

updateUserRole(id, role) == [users EXCEPT ![id].role = role]

(* ------------------------------ requests -------------------------------- *)
InFlight(r) == req[r].pc \notin {"idle", "done"}

\* a new request may arrive on connection r: the first connection with no request in flight
Free(r) ==
    /\ mig.pc = "done"
    /\ ~InFlight(r)
    /\ r = "r1" \/ InFlight("r1")
    /\ Cardinality({q \in Reqs : InFlight(q)}) < concurrency
    /\ served < MaxRequests

\* res.status(code).json(body): the handler is over
Respond(r, code, body) ==
    /\ UNCHANGED <<served, mig, concurrency, joined, front>>
    /\ req' = [req EXCEPT ![r].pc = "done", ![r].status = code, ![r].body = body, ![r].loc = NoLoc,
                          ![r].arg = NoArg]

\* the answer of a join that succeeded
RespondJoined(r, code, body) ==
    /\ UNCHANGED <<served, mig, concurrency, front>>
    /\ joined' = joined (+) SetToBag({<<req[r].user, req[r].loc.ws>>})
    /\ req' = [req EXCEPT ![r].pc = "done", ![r].status = code, ![r].body = body, ![r].loc = NoLoc,
                          ![r].arg = NoArg]

Goto(r, pc) ==
    /\ req' = [req EXCEPT ![r].pc = pc]
    /\ UNCHANGED <<served, mig, concurrency, joined, front>>

GotoWith(r, pc, loc) ==
    /\ req' = [req EXCEPT ![r].pc = pc, ![r].loc = loc]
    /\ UNCHANGED <<served, mig, concurrency, joined, front>>

Begin(r, op, u, arg, pc, loc) ==
    /\ served' = served + 1
    /\ UNCHANGED <<mig, concurrency, joined>>
    /\ req' = [req EXCEPT ![r] = [op |-> op, pc |-> pc, user |-> u, arg |-> arg, loc |-> loc,
                                 status |-> 0, body |-> NoBody]]

BeginRespond(r, op, u, arg, code, body) ==
    /\ served' = served + 1
    /\ UNCHANGED <<mig, concurrency, joined>>
    /\ req' = [req EXCEPT ![r] = [op |-> op, pc |-> "done", user |-> u, arg |-> arg, loc |-> NoLoc,
                                 status |-> code, body |-> body]]

Error(message) == [NoBody EXCEPT !.error = message]

\* a database call of a handler in flight throws: the catch block answers 500
DbError(r) ==
    /\ InFlight(r)
    /\ Respond(r, 500, Error("ServerError"))
    /\ UNCHANGED db

(* ----------------------- POST /api/workspaces/join ---------------------- *)
\* a join that does not compare the requester with the trainer of the workspace
JoinRequestNoSelfCheck(r, u, token) ==
    LET arg == [NoArg EXCEPT !.token = token] IN
    /\ Free(r)
    /\ IF token = <<>>
       THEN BeginRespond(r, "join", u, arg, 400, Error("TokenRequired"))
       ELSE IF getWorkspaceByToken(token) = {}
       THEN BeginRespond(r, "join", u, arg, 404, Error("InvalidToken"))
       ELSE \E w \in getWorkspaceByToken(token) :
              Begin(r, "join", u, arg, "join_members", [NoLoc EXCEPT !.ws = w])
    /\ UNCHANGED db

\* the handler entered by user u with body { token }
JoinRequest(r, u, token) ==
    LET arg == [NoArg EXCEPT !.token = token] IN
    /\ Free(r)
    /\ IF token = <<>>
       THEN BeginRespond(r, "join", u, arg, 400, Error("TokenRequired"))
       ELSE IF getWorkspaceByToken(token) = {}
       THEN BeginRespond(r, "join", u, arg, 404, Error("InvalidToken"))
       ELSE \E w \in getWorkspaceByToken(token) :
              IF workspaces[w].trainerUserId = u
              THEN BeginRespond(r, "join", u, arg, 400, Error("SelfJoin"))
              ELSE Begin(r, "join", u, arg, "join_members", [NoLoc EXCEPT !.ws = w])
    /\ UNCHANGED db

JoinStart(r) ==
    \E u \in Users, token \in SentTokens :
        JoinRequest(r, u, token) /\ UNCHANGED front

\* a join that inserts without looking at the rows the workspace has
JoinMembersAlwaysAdd(r) ==
    /\ req[r].pc = "join_members"
    /\ Goto(r, "join_add")
    /\ UNCHANGED db

JoinMembers(r) ==
    /\ req[r].pc = "join_members"
    /\ LET existingMembers == getWorkspaceMembers(req[r].loc.ws)
           alreadyMember == \E m \in existingMembers : m.userId = req[r].user
       IN IF alreadyMember THEN Goto(r, "join_update_existing") ELSE Goto(r, "join_add")
    /\ UNCHANGED db

JoinUpdateExisting(r) ==
    /\ req[r].pc = "join_update_existing"
    /\ users' = updateUserJoin(req[r].user)
    /\ RespondJoined(r, 200, [NoBody EXCEPT !.workspaceId = req[r].loc.ws, !.alreadyMember = TRUE])
    /\ UNCHANGED <<workspaces, members, pets, work>>

JoinAdd(r) ==
    /\ req[r].pc = "join_add"
    /\ members' = addWorkspaceMember(req[r].loc.ws, req[r].user, "OWNER")
    /\ Goto(r, "join_update")
    /\ UNCHANGED <<users, workspaces, pets, work>>

JoinUpdate(r) ==
    /\ req[r].pc = "join_update"
    /\ users' = updateUserJoin(req[r].user)
    /\ RespondJoined(r, 201, [NoBody EXCEPT !.workspaceId = req[r].loc.ws])
    /\ UNCHANGED <<workspaces, members, pets, work>>

(* ------------------ POST /api/workspaces/trainer-profile ---------------- *)
nameParts(displayName) == Split(Trim(displayName))
firstNameOf(displayName) == nameParts(displayName)[1]
lastNameOf(displayName) == OrNull(JoinParts(Tail(nameParts(displayName))))

\* the handler entered by user u with the form as body
TrainerProfileRequest(r, u, form) ==
    LET arg == [NoArg EXCEPT !.form = form] IN
    /\ Free(r)
    /\ IF form.displayName = <<>> \/ Len(Trim(form.displayName)) = 0
       THEN /\ BeginRespond(r, "profile", u, arg, 400, Error("DisplayNameRequired"))
            /\ UNCHANGED db
       ELSE /\ users' = updateUserProfile(u, firstNameOf(form.displayName),
                                          lastNameOf(form.displayName))
            /\ Begin(r, "profile", u, arg, "profile_lookup", NoLoc)
            /\ UNCHANGED <<workspaces, members, pets, work>>

TrainerProfileStart(r) ==
    \E u \in Users, form \in ProfileForms :
        \* overlapping requests all submit the same valid form
        /\ concurrency > 1 => form.displayName # <<" ", "S">>
        /\ TrainerProfileRequest(r, u, form)
        /\ UNCHANGED front

\* a trainer-profile that creates a workspace without looking for the one the user has
TrainerProfileAlwaysCreate(r) ==
    /\ req[r].pc = "profile_lookup"
    /\ Goto(r, "profile_create")
    /\ UNCHANGED db

TrainerProfileLookup(r) ==
    /\ req[r].pc = "profile_lookup"
    /\ IF getWorkspaceByTrainer(req[r].user) = {}
       THEN Goto(r, "profile_create")
       ELSE \E w \in getWorkspaceByTrainer(req[r].user) :
              GotoWith(r, "profile_update", [NoLoc EXCEPT !.ws = w])
    /\ UNCHANGED db

TrainerProfileCreate(r) ==
    /\ req[r].pc = "profile_create"
    /\ workspaces' = createWorkspace(req[r].user, OrNull(req[r].arg.form.businessName),
                                     OrNull(req[r].arg.form.bio))
    /\ GotoWith(r, "profile_add_member", [NoLoc EXCEPT !.ws = Len(workspaces) + 1])
    /\ UNCHANGED <<users, members, pets, work>>

TrainerProfileAddMember(r) ==
    /\ req[r].pc = "profile_add_member"
    /\ members' = addWorkspaceMember(req[r].loc.ws, req[r].user, "TRAINER")
    /\ Goto(r, "profile_get_user")
    /\ UNCHANGED <<users, workspaces, pets, work>>

TrainerProfileUpdate(r) ==
    /\ req[r].pc = "profile_update"
    /\ workspaces' = updateWorkspace(req[r].loc.ws, OrNull(req[r].arg.form.businessName),
                                     OrNull(req[r].arg.form.bio))
    /\ Goto(r, "profile_get_user")
    /\ UNCHANGED <<users, members, pets, work>>

TrainerProfileGetUser(r) ==
    /\ req[r].pc = "profile_get_user"
    /\ Respond(r, 200, NoBody)
    /\ UNCHANGED db

(* --------------------- POST /api/workspaces/create ---------------------- *)
WorkspaceCreateStart(r) ==
    \E u \in Users :
        /\ Free(r)
        /\ IF getWorkspaceByTrainer(u) # {}
           THEN \E w \in getWorkspaceByTrainer(u) :
                  BeginRespond(r, "create", u, NoArg, 200, [NoBody EXCEPT !.workspaceId = w])
           ELSE Begin(r, "create", u, NoArg, "create_insert", NoLoc)
        /\ UNCHANGED <<db, front>>

WorkspaceCreateInsert(r) ==
    /\ req[r].pc = "create_insert"
    /\ workspaces' = createWorkspace(req[r].user, NullStr, NullStr)
    /\ GotoWith(r, "create_add_member", [NoLoc EXCEPT !.ws = Len(workspaces) + 1])
    /\ UNCHANGED <<users, members, pets, work>>

WorkspaceCreateAddMember(r) ==
    /\ req[r].pc = "create_add_member"
    /\ members' = addWorkspaceMember(req[r].loc.ws, req[r].user, "TRAINER")
    /\ Goto(r, "create_update_user")
    /\ UNCHANGED <<users, workspaces, pets, work>>

WorkspaceCreateUpdateUser(r) ==
    /\ req[r].pc = "create_update_user"
    /\ users' = updateUserTrainer(req[r].user)
    /\ Goto(r, "create_get")
    /\ UNCHANGED <<workspaces, members, pets, work>>

WorkspaceCreateGet(r) ==
    /\ req[r].pc = "create_get"
    /\ Respond(r, 201, [NoBody EXCEPT !.workspaceId = req[r].loc.ws])
    /\ UNCHANGED db

(* ---------------------- GET /api/workspaces/invite ---------------------- *)
Invite(r) ==
    \E u \in Users :
        /\ Free(r)
        /\ IF getWorkspaceByTrainer(u) = {}
           THEN BeginRespond(r, "invite", u, NoArg, 404, Error("NoWorkspace"))
           ELSE \E w \in getWorkspaceByTrainer(u) :
                  BeginRespond(r, "invite", u, NoArg, 200,
                               [NoBody EXCEPT !.inviteToken = workspaces[w].inviteToken,
                                              !.workspaceId = w])
        /\ UNCHANGED <<db, front>>

(* ------------------ GET /api/workspaces/validate/:token ----------------- *)
\* a trainer name made of the first name alone
trainerNameFirstOnly(u) == OrEmpty(users[u].firstName)

trainerName(u) ==
    Trim(OrEmpty(users[u].firstName) \o <<" ">> \o OrEmpty(users[u].lastName))

ValidateToken(r) ==
    \E token \in SentTokens \ {<<>>} :
        LET arg == [NoArg EXCEPT !.token = token] IN
        /\ Free(r)
        /\ IF getWorkspaceByToken(token) = {}
           THEN BeginRespond(r, "validate", NoUser, arg, 404, Error("InvalidToken"))
           ELSE \E w \in getWorkspaceByToken(token) :
                  BeginRespond(r, "validate", NoUser, arg, 200,
                               [NoBody EXCEPT !.workspaceId = w,
                                              !.trainerName = trainerName(workspaces[w].trainerUserId)])
        /\ UNCHANGED <<db, front>>

(* --------------------------- POST /api/auth/role ------------------------ *)
SetRole(r) ==
    \/ \E u \in Users, role \in {"TRAINER", "OWNER", "ADMIN"} :
        LET arg == [NoArg EXCEPT !.role = role] IN
        /\ Free(r)
        /\ IF role # "TRAINER" /\ role # "OWNER"
           THEN BeginRespond(r, "role", u, arg, 400, Error("InvalidRole"))
           ELSE Begin(r, "role", u, arg, "role_update", NoLoc)
        /\ UNCHANGED <<db, front>>
    \/ /\ req[r].pc = "role_update"
       /\ users' = updateUserRole(req[r].user, req[r].arg.role)
       /\ Respond(r, 200, NoBody)
       /\ UNCHANGED <<workspaces, members, pets, work>>

(* ---------------------------- POST /api/pets ---------------------------- *)
\* a guard that lets every signed-in user through
requireOwnerAnyRole(u) == TRUE

\* requireOwner: the user row read by the middleware is the handler's req.appUser
requireOwner(u) == users[u].role \in {"OWNER", "ADMIN"}

Emails == {""} \cup DOMAIN users \cup {"x"}

\* the handler entered by user u with body { workspaceId, trainerEmail }
CreatePetRequest(r, u, workspaceId, email) ==
    LET arg == [NoArg EXCEPT !.workspaceId = workspaceId, !.email = email] IN
    /\ Free(r)
    /\ IF requireOwner(u)
       THEN Begin(r, "pet", u, arg, "pet_resolve",
                  [NoLoc EXCEPT !.oc = users[u].onboardingComplete])
       ELSE BeginRespond(r, "pet", u, arg, 403, Error("OwnerRequired"))
    /\ UNCHANGED db

CreatePetStart(r) ==
    \E u \in Users, workspaceId \in {NoWs} \cup 1..(Len(workspaces) + 1), email \in Emails :
        /\ workspaceId # NoWs => email = ""
        /\ CreatePetRequest(r, u, workspaceId, email)
        /\ UNCHANGED front

CreatePetResolve(r) ==
    /\ req[r].pc = "pet_resolve"
    /\ LET arg == req[r].arg
           loc == req[r].loc
       IN IF arg.workspaceId # NoWs
          THEN GotoWith(r, "pet_insert",
                        [loc EXCEPT !.ws = arg.workspaceId,
                                    !.trainer = IF getWorkspace(arg.workspaceId) # {}
                                                THEN workspaces[arg.workspaceId].trainerUserId
                                                ELSE NoUser])
          ELSE IF arg.email # ""
          THEN IF getUserByEmail(arg.email) = {}
               THEN Respond(r, 400, Error("NoSuchUser"))
               ELSE \E t \in getUserByEmail(arg.email) :
                      IF users[t].role # "TRAINER"
                      THEN Respond(r, 400, Error("NotATrainer"))
                      ELSE GotoWith(r, "pet_trainer_ws", [loc EXCEPT !.trainer = t])
          ELSE LET owned == {m \in getUserWorkspaces(req[r].user) : m.role = "OWNER"}
               IN IF owned = {}
                  THEN Goto(r, "pet_insert")
                  ELSE \E m \in owned :
                         GotoWith(r, "pet_member_ws", [loc EXCEPT !.ws = m.workspaceId])
    /\ UNCHANGED db

CreatePetTrainerWs(r) ==
    /\ req[r].pc = "pet_trainer_ws"
    /\ IF getWorkspaceByTrainer(req[r].loc.trainer) = {}
       THEN Goto(r, "pet_insert")
       ELSE \E w \in getWorkspaceByTrainer(req[r].loc.trainer) :
              GotoWith(r, "pet_insert", [req[r].loc EXCEPT !.ws = w])
    /\ UNCHANGED db

CreatePetMemberWs(r) ==
    /\ req[r].pc = "pet_member_ws"
    /\ IF getWorkspace(req[r].loc.ws) = {}
       THEN Goto(r, "pet_insert")
       ELSE GotoWith(r, "pet_insert",
                     [req[r].loc EXCEPT !.trainer = workspaces[req[r].loc.ws].trainerUserId])
    /\ UNCHANGED db

\* pets.workspace_id references workspaces.id: an unknown id makes the insert throw
CreatePetInsert(r) ==
    /\ req[r].pc = "pet_insert"
    /\ LET loc == req[r].loc
       IN IF loc.ws # NoWs /\ getWorkspace(loc.ws) = {}
          THEN /\ Respond(r, 500, Error("ServerError"))
               /\ UNCHANGED db
          ELSE /\ pets' = createPet(req[r].user, loc.trainer, loc.ws)
               /\ IF ~loc.oc
                  THEN Goto(r, "pet_onboard")
                  ELSE Respond(r, 201, NoBody)
               /\ UNCHANGED <<users, workspaces, members, work>>

CreatePetOnboard(r) ==
    /\ req[r].pc = "pet_onboard"
    /\ users' = updateUserOnboarded(req[r].user)
    /\ Respond(r, 201, NoBody)
    /\ UNCHANGED <<workspaces, members, pets, work>>

(* ----------------------- POST /api/pets/:id/trainer --------------------- *)
AssignTrainerStart(r) ==
    \E u \in Users, petId \in 1..(Len(pets) + 1), email \in Emails :
        LET arg == [NoArg EXCEPT !.petId = petId, !.email = email] IN
        /\ Free(r)
        /\ IF requireOwner(u)
           THEN Begin(r, "assign", u, arg, "assign_get_pet", NoLoc)
           ELSE BeginRespond(r, "assign", u, arg, 403, Error("OwnerRequired"))
        /\ UNCHANGED <<db, front>>

AssignTrainerGetPet(r) ==
    /\ req[r].pc = "assign_get_pet"
    /\ IF getPet(req[r].arg.petId) = {}
       THEN Respond(r, 404, Error("PetNotFound"))
       ELSE IF pets[req[r].arg.petId].ownerId # req[r].user
       THEN Respond(r, 403, Error("NotYourPet"))
       ELSE Goto(r, "assign_by_email")
    /\ UNCHANGED db

AssignTrainerByEmail(r) ==
    /\ req[r].pc = "assign_by_email"
    /\ IF getUserByEmail(req[r].arg.email) = {}
       THEN Respond(r, 400, Error("NoSuchUser"))
       ELSE \E t \in getUserByEmail(req[r].arg.email) :
              IF users[t].role # "TRAINER"
              THEN Respond(r, 400, Error("NotATrainer"))
              ELSE GotoWith(r, "assign_update", [NoLoc EXCEPT !.trainer = t])
    /\ UNCHANGED db

AssignTrainerUpdate(r) ==
    /\ req[r].pc = "assign_update"
    /\ pets' = assignTrainer(req[r].arg.petId, req[r].loc.trainer)
    /\ Respond(r, 200, NoBody)
    /\ UNCHANGED <<users, workspaces, members, work>>

(* --------------------- DatabaseStorage: homework ------------------------ *)
TaskIds == 1..Len(tasks)

\* a row that was deleted: its id is never given to another row
NoMedia == [table |-> "deleted", parentId |-> 0]

\* defaultNow() of an insert: requests are numbered as they arrive
Now == served

getTask(id) == {t \in TaskIds : t = id}

\* preferredDays is not among the values inserted: null
createTask(petId, createdByTrainerId, title, frequency) ==
    Append(tasks, [petId |-> petId, createdByTrainerId |-> createdByTrainerId, title |-> title,
                   frequency |-> frequency, isActive |-> TRUE, preferredDays |-> <<>>,
                   createdAt |-> Now])

\* an update that writes the whole row: a field that updates does not name gets its default
updateTaskWholeRow(id, title, isActive, preferredDays) ==
    [tasks EXCEPT ![id].title = IF title = "undefined" THEN @ ELSE title,
                  ![id].isActive = isActive # "false",
                  ![id].preferredDays = IF preferredDays = <<"undefined">> THEN <<>>
                                        ELSE preferredDays]

\* update homework_tasks set (updates) where id = id, one statement: only the fields present
\* in updates are set
updateTask(id, title, isActive, preferredDays) ==
    [tasks EXCEPT ![id].title = IF title = "undefined" THEN @ ELSE title,
                  ![id].isActive = IF isActive = "undefined" THEN @ ELSE isActive = "true",
                  ![id].preferredDays = IF preferredDays = <<"undefined">> THEN @
                                        ELSE preferredDays]

\* createTaskMedia, createSubmissionMedia, createCommentMedia: an insert into the table named
createMedia(table, parentId) == Append(media, [table |-> table, parentId |-> parentId])

\* delete from task_media where id = id: the task of the row is not looked at
deleteTaskMedia(id) ==
    IF id \in 1..Len(media) /\ media[id].table = "task_media"
    THEN [media EXCEPT ![id] = NoMedia]
    ELSE media

getSubmission(id) == {s \in 1..Len(submissions) : s = id}

\* a row as createSubmission inserts it: note || null, status "COMPLETED"
SubmissionRow(taskId, submittedByUserId, submittedAt) ==
    [taskId |-> taskId, submittedByUserId |-> submittedByUserId, note |-> NullStr,
     status |-> "COMPLETED", submittedAt |-> submittedAt]

\* an insert that takes the place of the submission the task has
createSubmissionReplacing(taskId, submittedByUserId) ==
    IF \E i \in DOMAIN submissions : submissions[i].taskId = taskId
    THEN [i \in DOMAIN submissions |->
            IF submissions[i].taskId = taskId
            THEN SubmissionRow(taskId, submittedByUserId, Now) ELSE submissions[i]]
    ELSE Append(submissions, SubmissionRow(taskId, submittedByUserId, Now))

createSubmission(taskId, submittedByUserId) ==
    Append(submissions, SubmissionRow(taskId, submittedByUserId, Now))

createComment(submissionId, trainerId) ==
    Append(comments, [submissionId |-> submissionId, trainerId |-> trainerId, createdAt |-> Now])

(* ------------------------------ requireTrainer -------------------------- *)
requireTrainer(u) == users[u].role \in {"TRAINER", "ADMIN"}

\* the test of every trainer-side handler: pet.trainerId !== user.id && user.role !== "ADMIN"
NotAssigned(petId, u) == pets[petId].trainerId # u /\ users[u].role # "ADMIN"

\* getTask, in the handlers that start from a task id
GetTaskThen(r, pc) ==
    IF getTask(req[r].arg.taskId) = {}
    THEN Respond(r, 404, Error("TaskNotFound"))
    ELSE GotoWith(r, pc, [req[r].loc EXCEPT !.petId = tasks[req[r].arg.taskId].petId])

\* getPet(task.petId) and the test of the assigned trainer
GetPetThen(r, pc) ==
    IF getPet(req[r].loc.petId) = {} \/ NotAssigned(req[r].loc.petId, req[r].user)
    THEN Respond(r, 403, Error("NotAssigned"))
    ELSE Goto(r, pc)

(* ---------------------------- POST /api/tasks --------------------------- *)
CreateTask(r) ==
    \/ \E u \in Users, petId \in 1..(Len(pets) + 1) :
        LET arg == [NoArg EXCEPT !.petId = petId, !.title = "a"] IN
        /\ Free(r)
        /\ IF requireTrainer(u)
           THEN Begin(r, "task", u, arg, "task_get_pet", NoLoc)
           ELSE BeginRespond(r, "task", u, arg, 403, Error("TrainerRequired"))
        /\ UNCHANGED <<db, front>>
    \/ /\ req[r].pc = "task_get_pet"
       /\ IF getPet(req[r].arg.petId) = {}
          THEN Respond(r, 404, Error("PetNotFound"))
          ELSE IF NotAssigned(req[r].arg.petId, req[r].user)
          THEN Respond(r, 403, Error("NotAssigned"))
          ELSE Goto(r, "task_insert")
       /\ UNCHANGED db
    \/ /\ req[r].pc = "task_insert"
       /\ tasks' = createTask(req[r].arg.petId, req[r].user, req[r].arg.title, "daily")
       /\ Respond(r, 201, NoBody)
       /\ UNCHANGED <<users, workspaces, members, pets, submissions, comments, media>>

(* -------------------------- PATCH /api/tasks/:id ------------------------ *)
\* the bodies sent set one field: a new title, or isActive to close or reopen the task
UpdateTask(r) ==
    \/ \E u \in Users, id \in 1..(Len(tasks) + 1), title \in {"undefined", "b"},
          isActive \in {"undefined", "true", "false"} :
        LET arg == [NoArg EXCEPT !.taskId = id, !.title = title, !.isActive = isActive] IN
        /\ (title = "undefined") # (isActive = "undefined")
        /\ Free(r)
        /\ IF requireTrainer(u)
           THEN Begin(r, "patch", u, arg, "patch_get_task", NoLoc)
           ELSE BeginRespond(r, "patch", u, arg, 403, Error("TrainerRequired"))
        /\ UNCHANGED <<db, front>>
    \/ /\ req[r].pc = "patch_get_task"
       /\ GetTaskThen(r, "patch_get_pet")
       /\ UNCHANGED db
    \/ /\ req[r].pc = "patch_get_pet"
       /\ GetPetThen(r, "patch_update")
       /\ UNCHANGED db
    \/ /\ req[r].pc = "patch_update"
       /\ tasks' = updateTask(req[r].arg.taskId, req[r].arg.title, req[r].arg.isActive,
                               <<"undefined">>)
       /\ Respond(r, 200, NoBody)
       /\ UNCHANGED <<users, workspaces, members, pets, submissions, comments, media>>

(* ------------------- PATCH /api/tasks/:id/preferred-days ---------------- *)
\* the bodies sent: two days, no day (stored as null), a day that is none
UpdatePreferredDays(r) ==
    \/ \E u \in Users, id \in 1..(Len(tasks) + 1),
          preferredDays \in {<<"Mon", "Wed">>, <<>>, <<"Someday">>} :
        /\ Free(r)
        /\ Begin(r, "days", u, [NoArg EXCEPT !.taskId = id, !.preferredDays = preferredDays],
                 "days_get_task", NoLoc)
        /\ UNCHANGED <<db, front>>
    \/ /\ req[r].pc = "days_get_task"
       /\ GetTaskThen(r, "days_get_pet")
       /\ UNCHANGED db
    \/ /\ req[r].pc = "days_get_pet"
       /\ LET validDays == {"Mon", "Tue", "Wed", "Thu", "Fri", "Sat", "Sun"}
              preferredDays == req[r].arg.preferredDays
          IN IF getPet(req[r].loc.petId) = {}
             THEN Respond(r, 404, Error("PetNotFound"))
             ELSE IF /\ pets[req[r].loc.petId].ownerId # req[r].user
                     /\ users[req[r].user].role # "ADMIN"
             THEN Respond(r, 403, Error("OwnerOnly"))
             ELSE IF \E k \in DOMAIN preferredDays : preferredDays[k] \notin validDays
             THEN Respond(r, 400, Error("InvalidDays"))
             ELSE Goto(r, "days_update")
       /\ UNCHANGED db
    \/ /\ req[r].pc = "days_update"
       /\ tasks' = updateTask(req[r].arg.taskId, "undefined", "undefined",
                               req[r].arg.preferredDays)
       /\ Respond(r, 200, NoBody)
       /\ UNCHANGED <<users, workspaces, members, pets, submissions, comments, media>>

(* ---------------------- POST /api/tasks/:taskId/media ------------------- *)
AddTaskMedia(r) ==
    \/ \E u \in Users, taskId \in 1..(Len(tasks) + 1), file \in BOOLEAN :
        LET arg == [NoArg EXCEPT !.taskId = taskId, !.file = file] IN
        /\ Free(r)
        /\ IF requireTrainer(u)
           THEN Begin(r, "task_media", u, arg, "tm_get_task", NoLoc)
           ELSE BeginRespond(r, "task_media", u, arg, 403, Error("TrainerRequired"))
        /\ UNCHANGED <<db, front>>
    \/ /\ req[r].pc = "tm_get_task"
       /\ GetTaskThen(r, "tm_get_pet")
       /\ UNCHANGED db
    \/ /\ req[r].pc = "tm_get_pet"
       /\ GetPetThen(r, "tm_file")
       /\ UNCHANGED db
    \/ /\ req[r].pc = "tm_file"
       /\ IF ~req[r].arg.file
          THEN /\ Respond(r, 400, Error("NoFile"))
               /\ UNCHANGED db
          ELSE /\ media' = createMedia("task_media", req[r].arg.taskId)
               /\ Respond(r, 201, NoBody)
               /\ UNCHANGED <<users, workspaces, members, pets, tasks, submissions, comments>>

(* ----------------- DELETE /api/tasks/:taskId/media/:mediaId ------------- *)
DeleteTaskMedia(r) ==
    \/ \E u \in Users, taskId \in 1..(Len(tasks) + 1), mediaId \in 1..(Len(media) + 1) :
        LET arg == [NoArg EXCEPT !.taskId = taskId, !.mediaId = mediaId] IN
        /\ Free(r)
        /\ IF requireTrainer(u)
           THEN Begin(r, "task_media_delete", u, arg, "td_get_task", NoLoc)
           ELSE BeginRespond(r, "task_media_delete", u, arg, 403, Error("TrainerRequired"))
        /\ UNCHANGED <<db, front>>
    \/ /\ req[r].pc = "td_get_task"
       /\ GetTaskThen(r, "td_get_pet")
       /\ UNCHANGED db
    \/ /\ req[r].pc = "td_get_pet"
       /\ GetPetThen(r, "td_delete")
       /\ UNCHANGED db
    \/ /\ req[r].pc = "td_delete"
       /\ media' = deleteTaskMedia(req[r].arg.mediaId)
       /\ Respond(r, 200, NoBody)
       /\ UNCHANGED <<users, workspaces, members, pets, tasks, submissions, comments>>

(* ------------------------ GET /api/submissions/:id ---------------------- *)
GetSubmission(r) ==
    \/ \E u \in Users, id \in 1..(Len(submissions) + 1) :
        /\ Free(r)
        /\ Begin(r, "get_submission", u, [NoArg EXCEPT !.submissionId = id], "gs_get", NoLoc)
        /\ UNCHANGED <<db, front>>
    \/ /\ req[r].pc = "gs_get"
       /\ IF getSubmission(req[r].arg.submissionId) = {}
          THEN Respond(r, 404, Error("SubmissionNotFound"))
          ELSE Respond(r, 200, NoBody)
       /\ UNCHANGED db

(* -------------------------- POST /api/submissions ----------------------- *)
\* media items in the body of one submission
MaxMedia == 1

\* a test that finds every task open
TaskClosedNever(task) == FALSE

\* !task.isActive
TaskClosed(task) == ~task.isActive

CreateSubmission(r) ==
    \/ \E u \in Users, taskId \in 1..(Len(tasks) + 1), n \in 0..MaxMedia :
        LET arg == [NoArg EXCEPT !.taskId = taskId, !.media = n] IN
        /\ Free(r)
        /\ IF requireOwner(u)
           THEN Begin(r, "submission", u, arg, "sub_get_task", NoLoc)
           ELSE BeginRespond(r, "submission", u, arg, 403, Error("OwnerRequired"))
        /\ UNCHANGED <<db, front>>
    \/ /\ req[r].pc = "sub_get_task"
       /\ IF getTask(req[r].arg.taskId) # {} /\ TaskClosed(tasks[req[r].arg.taskId])
          THEN Respond(r, 400, Error("TaskClosed"))
          ELSE GetTaskThen(r, "sub_get_pet")
       /\ UNCHANGED db
    \/ /\ req[r].pc = "sub_get_pet"
       /\ IF getPet(req[r].loc.petId) = {} \/ pets[req[r].loc.petId].ownerId # req[r].user
          THEN Respond(r, 403, Error("AccessDenied"))
          ELSE Goto(r, "sub_insert")
       /\ UNCHANGED db
    \/ /\ req[r].pc = "sub_insert"
       /\ submissions' = createSubmission(req[r].arg.taskId, req[r].user)
       /\ GotoWith(r, IF req[r].arg.media > 0 THEN "sub_media" ELSE "sub_get",
                   [req[r].loc EXCEPT !.id = Len(submissions) + 1, !.left = req[r].arg.media])
       /\ UNCHANGED <<users, workspaces, members, pets, tasks, comments, media>>
    \/ /\ req[r].pc = "sub_media"
       /\ media' = createMedia("submission_media", req[r].loc.id)
       /\ GotoWith(r, IF req[r].loc.left > 1 THEN "sub_media" ELSE "sub_get",
                   [req[r].loc EXCEPT !.left = @ - 1])
       /\ UNCHANGED <<users, workspaces, members, pets, tasks, submissions, comments>>
    \/ /\ req[r].pc = "sub_get"
       /\ Respond(r, 201, NoBody)
       /\ UNCHANGED db

(* --------------------- POST /api/submissions/:id/comment ---------------- *)
Comment(r) ==
    \/ \E u \in Users, id \in 1..(Len(submissions) + 1), comment \in {"", "c"}, file \in BOOLEAN :
        LET arg == [NoArg EXCEPT !.submissionId = id, !.comment = comment, !.file = file] IN
        /\ Free(r)
        /\ IF requireTrainer(u)
           THEN Begin(r, "comment", u, arg, "com_get_sub", NoLoc)
           ELSE BeginRespond(r, "comment", u, arg, 403, Error("TrainerRequired"))
        /\ UNCHANGED <<db, front>>
    \/ /\ req[r].pc = "com_get_sub"
       /\ IF getSubmission(req[r].arg.submissionId) = {}
          THEN Respond(r, 404, Error("SubmissionNotFound"))
          ELSE Goto(r, "com_get_task")
       /\ UNCHANGED db
    \/ /\ req[r].pc = "com_get_task"
       /\ LET taskId == submissions[req[r].arg.submissionId].taskId
          IN IF getTask(taskId) = {}
             THEN Respond(r, 404, Error("TaskNotFound"))
             ELSE GotoWith(r, "com_get_pet", [req[r].loc EXCEPT !.petId = tasks[taskId].petId])
       /\ UNCHANGED db
    \/ /\ req[r].pc = "com_get_pet"
       /\ IF getPet(req[r].loc.petId) = {} \/ NotAssigned(req[r].loc.petId, req[r].user)
          THEN Respond(r, 403, Error("NotAssigned"))
          ELSE IF req[r].arg.comment = ""
          THEN Respond(r, 400, Error("CommentRequired"))
          ELSE Goto(r, "com_insert")
       /\ UNCHANGED db
    \/ /\ req[r].pc = "com_insert"
       /\ comments' = createComment(req[r].arg.submissionId, req[r].user)
       /\ GotoWith(r, IF req[r].arg.file THEN "com_media" ELSE "com_get",
                   [req[r].loc EXCEPT !.id = Len(comments) + 1])
       /\ UNCHANGED <<users, workspaces, members, pets, tasks, submissions, media>>
    \/ /\ req[r].pc = "com_media"
       /\ media' = createMedia("comment_media", req[r].loc.id)
       /\ Goto(r, "com_get")
       /\ UNCHANGED <<users, workspaces, members, pets, tasks, submissions, comments>>
    \/ /\ req[r].pc = "com_get"
       /\ Respond(r, 201, NoBody)
       /\ UNCHANGED db

(* ------------------------ GET /api/timeline/:petId ---------------------- *)
\* the orders in which a query with ORDER BY date DESC may return the rows ids
OrderedBy(ids, date) ==
    {o \in [1..Cardinality(ids) -> ids] :
        /\ \A i, j \in DOMAIN o : i # j => o[i] # o[j]
        /\ \A i, j \in DOMAIN o : i < j => date[o[i]] >= date[o[j]]}

getTasksByPet(petId) ==
    OrderedBy({t \in TaskIds : tasks[t].petId = petId}, [t \in TaskIds |-> tasks[t].createdAt])

getSubmissionsByPet(petId) ==
    LET taskIds == {t \in TaskIds : tasks[t].petId = petId}
        ids == 1..Len(submissions)
    IN IF taskIds = {}
       THEN {<<>>}
       ELSE OrderedBy({i \in ids : submissions[i].taskId \in taskIds},
                      [i \in ids |-> submissions[i].submittedAt])

\* a submission without its comments
NoCommentsOf(order, submissionId) == <<>>

\* submission.comments, in the order the database returned them
CommentsOf(order, submissionId) ==
    SelectSeq(order, LAMBDA c : comments[c].submissionId = submissionId)

\* the second loop: each submission, followed by its comments
RECURSIVE SubmissionItems(_, _)
SubmissionItems(subs, order) ==
    IF subs = <<>>
    THEN <<>>
    ELSE LET cs == CommentsOf(order, Head(subs))
         IN <<[type |-> "submission", id |-> Head(subs),
               date |-> submissions[Head(subs)].submittedAt]>>
            \o [i \in DOMAIN cs |-> [type |-> "comment", id |-> cs[i],
                                     date |-> comments[cs[i]].createdAt]]
            \o SubmissionItems(Tail(subs), order)

\* an insertion that puts the item before the items of the same date
InsertItemBeforeTies(sorted, x) ==
    LET before == SelectSeq(sorted, LAMBDA y : y.date > x.date)
    IN before \o <<x>> \o SubSeq(sorted, Len(before) + 1, Len(sorted))

\* x goes behind every item b with b.date - x.date >= 0: the comparator moves x only before
\* items of a smaller date
InsertItem(sorted, x) ==
    LET before == SelectSeq(sorted, LAMBDA y : y.date >= x.date)
    IN before \o <<x>> \o SubSeq(sorted, Len(before) + 1, Len(sorted))

\* timelineItems.sort((a, b) => b.date - a.date): Array.prototype.sort is stable
RECURSIVE SortByDate(_)
SortByDate(items) ==
    IF items = <<>>
    THEN <<>>
    ELSE InsertItem(SortByDate(SubSeq(items, 1, Len(items) - 1)), items[Len(items)])

\* a test that lets every user in
TimelineDeniedNever(pet, u) == FALSE

\* pet.ownerId !== user.id && pet.trainerId !== user.id && user.role !== "ADMIN"
TimelineDenied(pet, u) == pet.ownerId # u /\ pet.trainerId # u /\ users[u].role # "ADMIN"

Timeline(r) ==
    \/ \E u \in Users, petId \in 1..(Len(pets) + 1) :
        /\ Free(r)
        /\ Begin(r, "timeline", u, [NoArg EXCEPT !.petId = petId], "tl_get_pet", NoLoc)
        /\ UNCHANGED <<db, front>>
    \/ /\ req[r].pc = "tl_get_pet"
       /\ IF getPet(req[r].arg.petId) = {}
          THEN Respond(r, 404, Error("PetNotFound"))
          ELSE Goto(r, "tl_user")
       /\ UNCHANGED db
    \/ /\ req[r].pc = "tl_user"
       /\ IF TimelineDenied(pets[req[r].arg.petId], req[r].user)
          THEN Respond(r, 403, Error("AccessDenied"))
          ELSE Goto(r, "tl_tasks")
       /\ UNCHANGED db
    \/ /\ req[r].pc = "tl_tasks"
       /\ \E order \in getTasksByPet(req[r].arg.petId) :
            GotoWith(r, "tl_submissions",
                     [req[r].loc EXCEPT !.items =
                         [i \in DOMAIN order |-> [type |-> "task", id |-> order[i],
                                                  date |-> tasks[order[i]].createdAt]]])
       /\ UNCHANGED db
    \* the comments of a submission come in any order (comments: { with: ... } has no orderBy)
    \/ /\ req[r].pc = "tl_submissions"
       /\ \E subs \in getSubmissionsByPet(req[r].arg.petId),
             order \in OrderedBy(1..Len(comments), [c \in 1..Len(comments) |-> 0]) :
            GotoWith(r, "tl_sort",
                     [req[r].loc EXCEPT !.items = @ \o SubmissionItems(subs, order)])
       /\ UNCHANGED db
    \/ /\ req[r].pc = "tl_sort"
       /\ Respond(r, 200, [NoBody EXCEPT !.items = SortByDate(req[r].loc.items)])
       /\ UNCHANGED db

(* ------------------------- migrateToWorkspaces -------------------------- *)
MigStart == [pc |-> "start", trainers |-> {}, trainer |-> NoUser, ws |-> NoWs,
             trainerPets |-> {}, ownerIds |-> {}]
MigDone == [MigStart EXCEPT !.pc = "done"]

MigrateStart ==
    /\ mig.pc = "start"
    /\ IF Len(workspaces) > 0
       THEN mig' = MigDone
       ELSE mig' = [MigStart EXCEPT !.pc = "trainers",
                        !.trainers = {u \in DOMAIN users : users[u].role \in {"TRAINER", "ADMIN"}}]
    /\ UNCHANGED <<db, req, served, concurrency, joined, front>>

MigrateInsertWorkspace ==
    /\ mig.pc = "trainers"
    /\ \E trainer \in mig.trainers :
        /\ workspaces' = createWorkspace(trainer, NullStr, NullStr)
        /\ mig' = [mig EXCEPT !.pc = "member", !.trainer = trainer, !.ws = Len(workspaces) + 1,
                              !.trainers = mig.trainers \ {trainer}]
    /\ UNCHANGED <<users, members, pets, req, served, concurrency, joined, work, front>>

MigrateInsertMember ==
    /\ mig.pc = "member"
    /\ members' = addWorkspaceMember(mig.ws, mig.trainer, "TRAINER")
    /\ mig' = [mig EXCEPT !.pc = "pets",
                          !.trainerPets = {p \in PetIds : pets[p].trainerId = mig.trainer}]
    /\ UNCHANGED <<users, workspaces, pets, req, served, concurrency, joined, work, front>>

MigratePet ==
    /\ mig.pc = "pets"
    /\ IF mig.trainerPets = {}
       THEN /\ mig' = [mig EXCEPT !.pc = "owners"]
            /\ UNCHANGED pets
       ELSE \E p \in mig.trainerPets :
              /\ pets' = [pets EXCEPT ![p].workspaceId = mig.ws]
              /\ mig' = [mig EXCEPT !.trainerPets = mig.trainerPets \ {p},
                                    !.ownerIds = mig.ownerIds \cup {pets[p].ownerId}]
    /\ UNCHANGED <<users, workspaces, members, req, served, concurrency, joined, work, front>>

MigrateOwner ==
    /\ mig.pc = "owners"
    /\ IF mig.ownerIds = {}
       THEN /\ mig' = [mig EXCEPT !.pc = "trainers", !.trainer = NoUser, !.ws = NoWs]
            /\ UNCHANGED members
       ELSE \E ownerId \in mig.ownerIds :
              /\ mig' = [mig EXCEPT !.ownerIds = mig.ownerIds \ {ownerId}]
              /\ IF ownerId = mig.trainer \/ MemberRows(mig.ws, ownerId) > 0
                 THEN UNCHANGED members
                 ELSE members' = addWorkspaceMember(mig.ws, ownerId, "OWNER")
    /\ UNCHANGED <<users, workspaces, pets, req, served, concurrency, joined, work, front>>

MigrateFinish ==
    /\ mig.pc = "trainers"
    /\ mig.trainers = {}
    /\ users' = [u \in DOMAIN users |->
                   IF users[u].role \in {"TRAINER", "OWNER", "ADMIN"}
                   THEN [users[u] EXCEPT !.onboardingComplete = TRUE]
                   ELSE users[u]]
    /\ mig' = MigDone
    /\ UNCHANGED <<workspaces, members, pets, req, served, concurrency, joined, work, front>>

\* the server process dies during the migration and is started again
MigrateRestart ==
    /\ mig.pc \notin {"start", "done"}
    /\ mig' = MigStart
    /\ UNCHANGED <<db, req, served, concurrency, joined, front>>

Migrate ==
    \/ MigrateStart \/ MigrateInsertWorkspace \/ MigrateInsertMember \/ MigratePet
    \/ MigrateOwner \/ MigrateFinish \/ MigrateRestart

(* ------------------------------- system --------------------------------- *)
NewUser == [role |-> NoRole, onboardingComplete |-> FALSE,
            firstName |-> NullStr, lastName |-> NullStr]

\* an empty database on which the users of the model have signed in
FreshDb ==
    /\ users = [u \in Users |-> NewUser]
    /\ pets = <<>>

\* the database as seedDatabase leaves it: a trainer, an owner and the owner's pet
SeededDb ==
    /\ users = [u \in Users |->
                  IF u = "u1"
                  THEN [role |-> "TRAINER", onboardingComplete |-> FALSE,
                        firstName |-> <<"S">>, lastName |-> <<"J">>]
                  ELSE [role |-> "OWNER", onboardingComplete |-> FALSE,
                        firstName |-> <<"E">>, lastName |-> <<"P">>]]
    /\ pets = <<[ownerId |-> "u2", trainerId |-> "u1", workspaceId |-> NoWs]>>

\* no homework yet
NoWork ==
    /\ tasks = <<>>
    /\ submissions = <<>>
    /\ comments = <<>>
    /\ media = <<>>

\* the server process starts: no request yet, the migration about to run
Started ==
    /\ req = [r \in Reqs |-> Idle]
    /\ served = 0
    /\ mig = MigStart
    /\ joined = EmptyBag
    /\ client = [u \in Users |-> NoClient]

InitTables ==
    /\ workspaces = <<>>
    /\ members = EmptyBag
    /\ Started
    /\ cal = NoCal

Init ==
    /\ FreshDb
    /\ NoWork
    /\ InitTables
    /\ concurrency = 2

Handlers(r) ==
    \/ JoinStart(r) \/ JoinMembers(r) \/ JoinUpdateExisting(r) \/ JoinAdd(r) \/ JoinUpdate(r)
    \/ TrainerProfileStart(r) \/ TrainerProfileLookup(r) \/ TrainerProfileCreate(r)
    \/ TrainerProfileAddMember(r) \/ TrainerProfileUpdate(r) \/ TrainerProfileGetUser(r)
    \/ WorkspaceCreateStart(r) \/ WorkspaceCreateInsert(r) \/ WorkspaceCreateAddMember(r)
    \/ WorkspaceCreateUpdateUser(r) \/ WorkspaceCreateGet(r)
    \/ Invite(r) \/ ValidateToken(r)
    \/ DbError(r)

PetHandlers(r) ==
    \/ CreatePetStart(r) \/ CreatePetResolve(r) \/ CreatePetTrainerWs(r)
    \/ CreatePetMemberWs(r) \/ CreatePetInsert(r) \/ CreatePetOnboard(r)
    \/ AssignTrainerStart(r) \/ AssignTrainerGetPet(r) \/ AssignTrainerByEmail(r)
    \/ AssignTrainerUpdate(r)

Next ==
    \/ MigrateStart \/ MigrateFinish
    \/ \E r \in Reqs : Handlers(r)

Spec == Init /\ [][Next]_vars

\* the same server with its requests served one after the other, on a fresh or a seeded database
InitSeq ==
    /\ FreshDb \/ SeededDb
    /\ NoWork
    /\ InitTables
    /\ concurrency = 1

NextSeq ==
    \/ Migrate
    \/ \E r \in Reqs : Handlers(r) \/ PetHandlers(r)

SpecSeq == InitSeq /\ [][NextSeq]_vars

\* the same, with the requests that set a role
NextRoles ==
    \/ NextSeq
    \/ \E r \in Reqs : SetRole(r)

SpecRoles == InitSeq /\ [][NextRoles]_vars

(* ------------------------- the homework flow ---------------------------- *)
\* a trainer who is in the users table and sends no request
OtherTrainer == "u3"

\* two pets of owner u2 with different trainers, as the migration of an earlier start left
\* them: each trainer has a workspace with the owner as a member; role is the role of u1
HomeworkPets(role) ==
    /\ users = [u \in Users \cup {OtherTrainer} |->
                  [role |-> IF u = "u2" THEN "OWNER" ELSE IF u = "u1" THEN role ELSE "TRAINER",
                   onboardingComplete |-> TRUE, firstName |-> <<"S">>, lastName |-> <<"J">>]]
    /\ workspaces = <<[trainerUserId |-> "u1", businessName |-> NullStr, bio |-> NullStr,
                       inviteToken |-> InviteToken(1)],
                      [trainerUserId |-> OtherTrainer, businessName |-> NullStr, bio |-> NullStr,
                       inviteToken |-> InviteToken(2)]>>
    /\ members = SetToBag({[workspaceId |-> 1, userId |-> "u1", role |-> "TRAINER"],
                           [workspaceId |-> 1, userId |-> "u2", role |-> "OWNER"],
                           [workspaceId |-> 2, userId |-> OtherTrainer, role |-> "TRAINER"],
                           [workspaceId |-> 2, userId |-> "u2", role |-> "OWNER"]})
    /\ pets = <<[ownerId |-> "u2", trainerId |-> "u1", workspaceId |-> 1],
                [ownerId |-> "u2", trainerId |-> OtherTrainer, workspaceId |-> 2]>>

\* a task row as createTask inserted it at the time createdAt
TaskRow(petId, createdAt) ==
    [petId |-> petId, createdByTrainerId |-> pets[petId].trainerId, title |-> "a",
     frequency |-> "daily", isActive |-> TRUE, preferredDays |-> <<>>, createdAt |-> createdAt]

\* a database in use: a task with a media file and a submission for each pet; the first task
\* has been closed
HomeworkDb ==
    /\ \E role \in {"TRAINER", "ADMIN"} : HomeworkPets(role)
    /\ tasks = <<[TaskRow(1, 0) EXCEPT !.isActive = FALSE], TaskRow(2, 0)>>
    /\ submissions = <<SubmissionRow(1, "u2", 0), SubmissionRow(2, "u2", 0)>>
    /\ comments = <<>>
    /\ media = <<[table |-> "task_media", parentId |-> 1],
                 [table |-> "task_media", parentId |-> 2]>>

InitWork ==
    /\ HomeworkDb
    /\ Started
    /\ cal = NoCal
    /\ concurrency = 1

NextWork ==
    \/ MigrateStart
    \/ \E r \in Reqs :
         \/ CreateTask(r) \/ UpdateTask(r) \/ UpdatePreferredDays(r)
         \/ AddTaskMedia(r) \/ DeleteTaskMedia(r)
         \/ GetSubmission(r) \/ CreateSubmission(r) \/ Comment(r) \/ Timeline(r)
         \/ AssignTrainerStart(r) \/ AssignTrainerGetPet(r) \/ AssignTrainerByEmail(r)
         \/ AssignTrainerUpdate(r)
         \/ DbError(r)

SpecWork == InitWork /\ [][NextWork]_vars

(* -------------------- concurrent requests on one task ------------------- *)
\* an open task of the first pet and no submission yet; two requests may overlap
InitRace ==
    /\ HomeworkPets("TRAINER")
    /\ tasks = <<TaskRow(1, 0)>>
    /\ submissions = <<>>
    /\ comments = <<>>
    /\ media = <<>>
    /\ Started
    /\ cal = NoCal
    /\ concurrency = 2

NextRace ==
    \/ MigrateStart
    \/ \E r \in Reqs :
         UpdateTask(r) \/ UpdatePreferredDays(r) \/ CreateSubmission(r) \/ DbError(r)

SpecRace == InitRace /\ [][NextRace]_vars

(* ------------------------------ the timeline --------------------------- *)
\* rows in each of the tables homework_tasks, homework_submissions, trainer_comments
MaxRows == 2
\* the insert times run from 0 to MaxDate
MaxDate == 2

\* the tables after some inserts: ids and times grow with the inserts, and a row is inserted
\* after the row it refers to
TimelineDb ==
    /\ HomeworkPets("TRAINER")
    /\ \E n \in 0..MaxRows : \E f \in [1..n -> PetIds \X (0..MaxDate)] :
         /\ \A i \in 1..(n - 1) : f[i][2] <= f[i + 1][2]
         /\ tasks = [i \in 1..n |-> TaskRow(f[i][1], f[i][2])]
    /\ \E n \in 0..MaxRows : \E f \in [1..n -> TaskIds \X (0..MaxDate)] :
         /\ \A i \in 1..(n - 1) : f[i][2] <= f[i + 1][2]
         /\ \A i \in 1..n : tasks[f[i][1]].createdAt <= f[i][2]
         /\ submissions = [i \in 1..n |-> SubmissionRow(f[i][1], "u2", f[i][2])]
    /\ \E n \in 0..MaxRows : \E f \in [1..n -> (1..Len(submissions)) \X (0..MaxDate)] :
         /\ \A i \in 1..(n - 1) : f[i][2] <= f[i + 1][2]
         /\ \A i \in 1..n : submissions[f[i][1]].submittedAt <= f[i][2]
         /\ comments = [i \in 1..n |-> [submissionId |-> f[i][1],
                                        trainerId |-> pets[tasks[submissions[f[i][1]].taskId].petId].trainerId,
                                        createdAt |-> f[i][2]]]
    /\ media = <<>>

InitTimeline ==
    /\ TimelineDb
    /\ Started
    /\ cal = NoCal
    /\ concurrency = 1

NextTimeline ==
    \/ MigrateStart
    \/ \E r \in Reqs : Timeline(r) \/ DbError(r)

SpecTimeline == InitTimeline /\ [][NextTimeline]_vars

(* ------------------- the calendar: CalendarView ------------------------- *)
\* Time is counted in half days from the midnight that starts a Sunday: day d starts at the
\* instant 2 * d, and getDay(d) is d % 7 (0 is Sunday).
Week == 0..6
\* the clock of the browser runs from 0 to MaxNow
MaxNow == 3

dayNameToNumber == [Sun |-> 0, Mon |-> 1, Tue |-> 2, Wed |-> 3, Thu |-> 4, Fri |-> 5, Sat |-> 6]

\* String.prototype.toLowerCase on the frequencies of the model
toLowerCase(s) == IF s = "Weekly" THEN "weekly" ELSE s

\* submissions.filter(sub => isSameDay(new Date(sub.submittedAt), day))
getSubmissionsForDay(subs, day) == SelectSeq(subs, LAMBDA sub : sub.submittedAt \div 2 = day)

\* a schedule that looks at the frequency alone
getTasksForDayByFrequency(tks, day) ==
    SelectSeq(tks, LAMBDA task : toLowerCase(task.frequency) \notin {"3x/week", "2x/week", "weekly"})

getTasksForDay(tks, day) ==
    LET dayOfWeek == day % 7
        Scheduled(task) ==
            IF Len(task.preferredDays) > 0
            THEN \E i \in DOMAIN task.preferredDays :
                    dayNameToNumber[task.preferredDays[i]] = dayOfWeek
            ELSE LET freq == toLowerCase(task.frequency)
                 IN CASE freq = "daily" -> TRUE
                      [] freq \in {"3x/week", "3x per week"} -> dayOfWeek \in {1, 3, 5}
                      [] freq \in {"2x/week", "2x per week"} -> dayOfWeek \in {2, 5}
                      [] freq = "weekly" -> dayOfWeek = 1
                      [] OTHER -> TRUE
    IN SelectSeq(tks, Scheduled)

\* a classifier that asks for the future first
getDayStatusFutureFirst(tks, subs, day, now) ==
    IF 2 * day > now THEN "future"
    ELSE IF Len(getTasksForDay(tks, day)) = 0 THEN "none"
    ELSE "missed"

\* a classifier that looks at the day selected in the calendar
getDayStatusOfSelected(tks, subs, day, now) ==
    IF day \in cal.selectedDay \/ Len(getTasksForDay(tks, day)) = 0 THEN "none"
    ELSE IF 2 * day > now THEN "future"
    ELSE "missed"

\* now is the value of new Date() when the cell is rendered
getDayStatus(tks, subs, day, now) ==
    LET tasksForDay == getTasksForDay(tks, day)
        subsForDay == getSubmissionsForDay(subs, day)
        completedTaskCount ==
            Len(SelectSeq(tasksForDay,
                          LAMBDA task : \E i \in DOMAIN subsForDay : subsForDay[i].taskId = task.id))
    IN IF Len(tasksForDay) = 0 THEN "none"
       ELSE IF 2 * day > now THEN "future"
       ELSE IF completedTaskCount >= Len(tasksForDay) THEN "complete"
       ELSE IF completedTaskCount > 0 THEN "partial"
       ELSE "missed"

\* the frequencies a task may carry: those of the task form and others sent to POST /api/tasks
Frequencies == {"daily", "3x/week", "2x/week", "weekly", "as-needed", "3x per week", "Weekly"}

\* the pet page is open on the calendar tab; the tasks and the submissions are those the
\* queries of the page returned: one or two tasks (the second one daily and open), up to two
\* submissions filed on Monday at noon or at the midnight that starts Tuesday
InitCalendar ==
    /\ FreshDb
    /\ NoWork
    /\ workspaces = <<>>
    /\ members = EmptyBag
    /\ Started
    /\ concurrency = 1
    /\ \E n \in 0..2, frequency \in Frequencies, isActive \in BOOLEAN,
          preferredDays \in {<<>>, <<"Mon", "Wed">>}, subs \in 0..2 :
         \E f \in [1..subs -> (1..2) \X {3, 4}] :
            /\ n = 0 => frequency = "daily" /\ isActive /\ preferredDays = <<>>
            /\ \A i \in 1..(subs - 1) : f[i][2] <= f[i + 1][2]
            /\ cal = [tasks |-> [i \in 1..n |->
                                   IF i = 1
                                   THEN [id |-> 1, frequency |-> frequency, isActive |-> isActive,
                                         preferredDays |-> preferredDays]
                                   ELSE [id |-> i, frequency |-> "daily", isActive |-> TRUE,
                                         preferredDays |-> <<>>]],
                      submissions |-> [i \in 1..subs |->
                                         [taskId |-> f[i][1], submittedAt |-> f[i][2]]],
                      now |-> 0, selectedDay |-> {}, shown |-> FALSE, day |-> 0, at |-> 0,
                      scheduled |-> {}, status |-> "none"]

\* the browser: the clock advances, a day is clicked, a day cell is rendered
CalendarView ==
    /\ \/ /\ cal.now < MaxNow
          /\ cal' = [cal EXCEPT !.now = @ + 1]
       \/ \E day \in Week :
            cal' = [cal EXCEPT !.selectedDay = IF day \in @ THEN {} ELSE {day}]
       \* PetDetail hands the calendar tasks.filter(t => t.isActive)
       \/ \E day \in Week :
            LET activeTasks == SelectSeq(cal.tasks, LAMBDA t : t.isActive)
                tasksForDay == getTasksForDay(activeTasks, day)
            IN cal' = [cal EXCEPT !.shown = TRUE, !.day = day, !.at = cal.now,
                                  !.scheduled = {tasksForDay[i].id : i \in DOMAIN tasksForDay},
                                  !.status = getDayStatus(activeTasks, cal.submissions, day,
                                                          cal.now)]
    /\ UNCHANGED <<db, req, served, mig, concurrency, joined, client>>

SpecCalendar == InitCalendar /\ [][CalendarView]_vars

(* ----------------------- the client: App.tsx ------------------------ *)
\* the locations a browser may be sent to
Paths == {"/", "/dashboard", "/pets/new", "/pets/1", "/join", "/x"}

\* useAuth: the user row as the last fetch of /api/auth/user returned it
FetchUser(u) == [role |-> users[u].role, onboardingComplete |-> users[u].onboardingComplete]

\* the last Switch of AuthenticatedRoutes
MainSwitch(path) ==
    CASE path \in {"/", "/dashboard"} -> "Dashboard"
      [] path = "/pets/new" -> "AddPet"
      [] path = "/pets/1" -> "PetDetail"
      [] path = "/join" -> "Join"
      [] OTHER -> "NotFound"

\* a router whose onboarding branch falls through to the last Switch
AuthenticatedRoutesNoOwnerGate(c) ==
    IF ~c.signedIn
    THEN IF c.path = "/join" THEN "Join" ELSE "Landing"
    ELSE IF c.user.role = NoRole /\ ~c.user.onboardingComplete THEN "TrainerSetup"
    ELSE IF c.user.role = "TRAINER" /\ ~c.user.onboardingComplete THEN "TrainerSetup"
    ELSE MainSwitch(c.path)

\* the page AuthenticatedRoutes renders for the browser state c
AuthenticatedRoutes(c) ==
    IF ~c.signedIn
    THEN IF c.path = "/join" THEN "Join" ELSE "Landing"
    ELSE IF c.user.role = NoRole /\ ~c.user.onboardingComplete THEN "TrainerSetup"
    ELSE IF c.user.role = "TRAINER" /\ ~c.user.onboardingComplete THEN "TrainerSetup"
    ELSE IF c.user.role = "OWNER" /\ ~c.user.onboardingComplete THEN "AddPet"
    ELSE MainSwitch(c.path)

\* the Join page shows the button that sends the join request
JoinButton(c) ==
    /\ AuthenticatedRoutes(c) = "Join"
    /\ c.token # <<>>
    /\ getWorkspaceByToken(c.token) # {}
    /\ c.signedIn

\* no browser waits for an answer on connection r
Unwatched(r) == \A v \in Users : client[v].waiting # r

\* the answer to the request browser u waits for has arrived
Answer(u, op) ==
    /\ client[u].waiting \in Reqs
    /\ req[client[u].waiting].pc = "done"
    /\ req[client[u].waiting].op = op

\* the user types a location, or reloads: the application starts and fetches the user
OpenUrl(u) ==
    \E path \in Paths, token \in SentTokens :
        /\ mig.pc = "done"
        /\ path # "/join" => token = <<>>
        /\ client' = [client EXCEPT ![u] =
                         [signedIn |-> client[u].signedIn,
                          user |-> IF client[u].signedIn THEN FetchUser(u) ELSE NoClient.user,
                          path |-> path, token |-> token, waiting |-> "none"]]
        /\ UNCHANGED <<db, req, served, mig, concurrency, joined, cal>>

\* login: the sign-in of the platform, after which the application starts again
SignIn(u) ==
    /\ client[u].path # ""
    /\ ~client[u].signedIn
    /\ AuthenticatedRoutes(client[u]) \in {"Landing", "Join"}
    /\ \E path \in {"/", client[u].path} :
          client' = [client EXCEPT ![u] =
                        [signedIn |-> TRUE, user |-> FetchUser(u), path |-> path,
                         token |-> IF path = client[u].path THEN client[u].token ELSE <<>>,
                         waiting |-> "none"]]
    /\ UNCHANGED <<db, req, served, mig, concurrency, joined, cal>>

\* TrainerSetup: submitMutation
SubmitTrainerSetup(u) ==
    \E r \in Reqs, form \in ProfileForms :
        /\ AuthenticatedRoutes(client[u]) = "TrainerSetup"
        /\ client[u].waiting = "none"
        /\ Unwatched(r)
        /\ TrainerProfileRequest(r, u, form)
        /\ client' = [client EXCEPT ![u].waiting = r]
        /\ UNCHANGED cal

\* TrainerSetup: onSuccess refetches the user, onError shows a toast
TrainerSetupDone(u) ==
    /\ Answer(u, "profile")
    /\ client' = [client EXCEPT ![u].waiting = "none",
                                ![u].user = IF req[client[u].waiting].status = 200
                                            THEN FetchUser(u) ELSE client[u].user]
    /\ UNCHANGED <<db, req, served, mig, concurrency, joined, cal>>

\* Join: joinMutation.mutate()
ClickJoin(u) ==
    \E r \in Reqs :
        /\ JoinButton(client[u])
        /\ client[u].waiting = "none"
        /\ Unwatched(r)
        /\ JoinRequest(r, u, client[u].token)
        /\ client' = [client EXCEPT ![u].waiting = r]
        /\ UNCHANGED cal

\* Join: onSuccess refetches the user and navigates to /pets/new
JoinDone(u) ==
    /\ Answer(u, "join")
    /\ IF req[client[u].waiting].status \in {200, 201}
       THEN client' = [client EXCEPT ![u].waiting = "none", ![u].user = FetchUser(u),
                                     ![u].path = "/pets/new", ![u].token = <<>>]
       ELSE client' = [client EXCEPT ![u].waiting = "none"]
    /\ UNCHANGED <<db, req, served, mig, concurrency, joined, cal>>

\* AddPet: createPetMutation.mutate(data)
SubmitAddPet(u) ==
    \E r \in Reqs, email \in Emails :
        /\ AuthenticatedRoutes(client[u]) = "AddPet"
        /\ client[u].waiting = "none"
        /\ Unwatched(r)
        /\ CreatePetRequest(r, u, NoWs, email)
        /\ client' = [client EXCEPT ![u].waiting = r]
        /\ UNCHANGED cal

\* AddPet: onSuccess navigates to /dashboard; the user is not fetched again
AddPetDone(u) ==
    /\ Answer(u, "pet")
    /\ IF req[client[u].waiting].status = 201
       THEN client' = [client EXCEPT ![u].waiting = "none", ![u].path = "/dashboard"]
       ELSE client' = [client EXCEPT ![u].waiting = "none"]
    /\ UNCHANGED <<db, req, served, mig, concurrency, joined, cal>>

\* a link or a button of the page shown: navigate(path), the user is not fetched again
Navigate(u) ==
    /\ client[u].waiting = "none"
    /\ \/ /\ AuthenticatedRoutes(client[u]) = "AddPet"
          /\ client' = [client EXCEPT ![u].path = "/dashboard"]
       \/ /\ AuthenticatedRoutes(client[u]) = "Dashboard"
          /\ \E path \in {"/pets/new", "/pets/1"} : client' = [client EXCEPT ![u].path = path]
       \/ /\ AuthenticatedRoutes(client[u]) = "PetDetail"
          /\ client' = [client EXCEPT ![u].path = "/dashboard"]
    /\ UNCHANGED <<db, req, served, mig, concurrency, joined, cal>>

Browser(u) ==
    \/ OpenUrl(u) \/ SignIn(u) \/ Navigate(u)
    \/ SubmitTrainerSetup(u) \/ TrainerSetupDone(u)
    \/ ClickJoin(u) \/ JoinDone(u)
    \/ SubmitAddPet(u) \/ AddPetDone(u)

\* the steps of the handlers the browsers have started
ServerSteps(r) ==
    \/ JoinMembers(r) \/ JoinUpdateExisting(r) \/ JoinAdd(r) \/ JoinUpdate(r)
    \/ TrainerProfileLookup(r) \/ TrainerProfileCreate(r) \/ TrainerProfileAddMember(r)
    \/ TrainerProfileGetUser(r)
    \/ CreatePetResolve(r) \/ CreatePetTrainerWs(r) \/ CreatePetMemberWs(r)
    \/ CreatePetInsert(r) \/ CreatePetOnboard(r)
    \/ DbError(r)

\* the seeded database, to which a user who signs in for the first time may be added
SeededDbNewUser ==
    /\ users = [u \in Users |->
                  IF u = "u1"
                  THEN [role |-> "TRAINER", onboardingComplete |-> FALSE,
                        firstName |-> <<"S">>, lastName |-> <<"J">>]
                  ELSE NewUser]
    /\ pets = <<>>

\* the server started on a seeded database, its requests sent by the browsers of the users
InitClient ==
    /\ SeededDb \/ SeededDbNewUser
    /\ NoWork
    /\ InitTables
    /\ concurrency = 1

NextClient ==
    \/ MigrateStart \/ MigrateInsertWorkspace \/ MigrateInsertMember \/ MigratePet
    \/ MigrateOwner \/ MigrateFinish
    \/ \E u \in Users : Browser(u)
    \/ \E r \in Reqs : ServerSteps(r)

SpecClient == InitClient /\ [][NextClient]_vars

(* ======================================================================= *)
(*                               properties                                *)
(* ======================================================================= *)
\* request r arrives in this step
Began(r) == Free(r) /\ served' = served + 1

\* request r is answered in this step, having been in flight
Answered(r) == InFlight(r) /\ req'[r].pc = "done"

Succeeded(r) == req'[r].status \in {200, 201}

HasRow(w, u, role) == [workspaceId |-> w, userId |-> u, role |-> role] \in BagToSet(members)

\* C1: at most one workspace_members row per (workspace, user) pair, in every
\* reachable state, whatever the interleaving of the requests
MemberUnique == \A w \in WsIds, u \in Users : MemberRows(w, u) <= 1

\* C2: with the requests served one after the other, a join that succeeds leaves
\* exactly one row for its (workspace, user) pair, and a join that succeeds after
\* an earlier successful join of the same user and workspace answers alreadyMember
JoinTwiceIdempotent ==
    [][\A r \in Reqs :
          (Answered(r) /\ req[r].op = "join" /\ Succeeded(r)) =>
              \A u \in Users, w \in WsIds :
                  (u = req[r].user /\ w = req[r].loc.ws) =>
                      /\ workspaces[w].inviteToken = req[r].arg.token
                      /\ MemberRows(w, u)' = 1
                      /\ BagIn(<<u, w>>, joined) => req'[r].body.alreadyMember]_vars

\* C2 witness: some user has joined the same workspace twice and the last answer
\* said alreadyMember
JoinedTwice ==
    \E r \in Reqs, u \in Users, w \in WsIds :
        /\ CopiesIn(<<u, w>>, joined) >= 2
        /\ req[r].pc = "done" /\ req[r].op = "join" /\ req[r].user = u
        /\ req[r].body.alreadyMember /\ req[r].body.workspaceId = w
        /\ MemberRows(w, u) = 1

\* C3: in every reachable state the trainer of every workspace has a membership
\* row of role TRAINER in it
TrainerIsMember ==
    \A w \in WsIds : HasRow(w, workspaces[w].trainerUserId, "TRAINER")

\* C4: in every reachable state at most one workspace has a given user as its trainer
OneWorkspacePerTrainer ==
    \A u \in Users : Cardinality(getWorkspaceByTrainer(u)) <= 1

\* C5: a join request of the trainer of the workspace the token names is answered
\* 400 SelfJoin in its first step and no table changes in that step
SelfJoinRejected ==
    [][\A r \in Reqs :
          (/\ Began(r) /\ req'[r].op = "join"
           /\ \E w \in WsIds : /\ workspaces[w].inviteToken = req'[r].arg.token
                               /\ workspaces[w].trainerUserId = req'[r].user) =>
              /\ req'[r].pc = "done"
              /\ req'[r].status = 400
              /\ req'[r].body.error = "SelfJoin"
              /\ db' = db]_vars

\* C5 witness: a trainer has been refused to join the own workspace
SelfJoinSeen ==
    \E r \in Reqs :
        /\ req[r].pc = "done" /\ req[r].op = "join" /\ req[r].body.error = "SelfJoin"
        /\ \E w \in WsIds : /\ workspaces[w].inviteToken = req[r].arg.token
                            /\ workspaces[w].trainerUserId = req[r].user

\* C6: a join request with no token, or with a token no workspace has, is answered
\* with an error in its first step and no table changes in that step
InvalidTokenRejected ==
    [][\A r \in Reqs :
          (/\ Began(r) /\ req'[r].op = "join"
           /\ \A w \in WsIds : workspaces[w].inviteToken # req'[r].arg.token) =>
              /\ req'[r].pc = "done"
              /\ req'[r].status \in {400, 404}
              /\ req'[r].body.error =
                     (IF req'[r].arg.token = <<>> THEN "TokenRequired" ELSE "InvalidToken")
              /\ db' = db]_vars

\* C6 witness: a join with an unknown token has been refused while a workspace exists
InvalidTokenSeen ==
    \E r \in Reqs :
        /\ req[r].pc = "done" /\ req[r].op = "join" /\ req[r].body.error = "InvalidToken"
        /\ req[r].arg.token = <<"tok", 0>>
        /\ WsIds # {}

\* C7: when a join is answered with success, the user has a row of role OWNER in
\* the workspace of the token, has role OWNER and has onboardingComplete = false
JoinMakesOwner ==
    [][\A r \in Reqs :
          (Answered(r) /\ req[r].op = "join" /\ Succeeded(r)) =>
              \E u \in Users, w \in WsIds :
                  /\ u = req[r].user /\ w = req[r].loc.ws
                  /\ workspaces[w].inviteToken = req[r].arg.token
                  /\ req'[r].body.workspaceId = w
                  /\ HasRow(w, u, "OWNER")'
                  /\ users'[u].role = "OWNER"
                  /\ users'[u].onboardingComplete = FALSE]_vars

\* C7 witness: a user who had submitted a trainer profile (so onboardingComplete
\* was true) has joined a workspace and is an OWNER who is not onboarded
JoinResetsOnboarding ==
    \E r \in Reqs :
        /\ req[r].pc = "done" /\ req[r].op = "join" /\ req[r].status \in {200, 201}
        /\ users[req[r].user].firstName = <<"S">>
        /\ users[req[r].user].role = "OWNER"
        /\ ~users[req[r].user].onboardingComplete
        /\ HasRow(req[r].body.workspaceId, req[r].user, "OWNER")

\* the name of a user as the parts of it that are set, separated by a space
FullName(u) ==
    IF users[u].firstName = NullStr
    THEN OrEmpty(users[u].lastName)
    ELSE IF users[u].lastName = NullStr
    THEN users[u].firstName
    ELSE users[u].firstName \o <<" ">> \o users[u].lastName

\* C8: validateToken answers 200 with the id of the workspace that has the token
\* and the name of its trainer, 404 when no workspace has it, and changes no table
ValidateTokenCorrect ==
    [][\A r \in Reqs :
          (Began(r) /\ req'[r].op = "validate") =>
              LET token == req'[r].arg.token
                  found == {w \in WsIds : workspaces[w].inviteToken = token}
              IN /\ req'[r].pc = "done"
                 /\ db' = db
                 /\ IF found = {}
                    THEN req'[r].status = 404 /\ req'[r].body.error = "InvalidToken"
                    ELSE /\ req'[r].status = 200
                         /\ \A w \in found :
                              /\ req'[r].body.workspaceId = w
                              /\ req'[r].body.trainerName = FullName(workspaces[w].trainerUserId)]_vars

\* C8 witness: a token has been validated and the answer names the trainer "S J"
ValidateTokenSeen ==
    \E r \in Reqs :
        /\ req[r].pc = "done" /\ req[r].op = "validate" /\ req[r].status = 200
        /\ req[r].body.trainerName = <<"S", " ", "J">>
        /\ workspaces[req[r].body.workspaceId].inviteToken = req[r].arg.token

\* the steps of a trainer-profile request of a user who had a workspace when it arrived
ResubmitStep(r) ==
    /\ \/ Began(r) /\ req'[r].op = "profile"
       \/ InFlight(r) /\ req[r].op = "profile" /\ req[r].pc # "profile_add_member"
    /\ getWorkspaceByTrainer(req'[r].user) # {}

\* C9: with the requests served one after the other, when a trainer-profile
\* request is answered 200 the user is an onboarded TRAINER with a workspace that
\* has a token; the request of a user who had a workspace changes only that
\* user's row and the businessName and bio of that user's workspace; a request
\* with an empty or blank displayName is answered 400 and changes no table
TrainerProfileCorrect ==
    [][\A r \in Reqs :
          /\ (Answered(r) /\ req[r].op = "profile" /\ req'[r].status = 200) =>
                /\ users'[req[r].user].role = "TRAINER"
                /\ users'[req[r].user].onboardingComplete
                /\ \E w \in 1..Len(workspaces') :
                      /\ workspaces'[w].trainerUserId = req[r].user
                      /\ workspaces'[w].inviteToken # <<>>
          /\ ResubmitStep(r) =>
                /\ Len(workspaces') = Len(workspaces)
                /\ \A w \in WsIds :
                      /\ workspaces'[w].trainerUserId = workspaces[w].trainerUserId
                      /\ workspaces'[w].inviteToken = workspaces[w].inviteToken
                      /\ workspaces'[w] # workspaces[w] =>
                             workspaces[w].trainerUserId = req'[r].user
                /\ members' = members
                /\ pets' = pets
                /\ \A v \in Users \ {req'[r].user} : users'[v] = users[v]
          /\ (Began(r) /\ req'[r].op = "profile") =>
                IF Blank(req'[r].arg.form.displayName)
                THEN /\ req'[r].pc = "done"
                     /\ req'[r].status = 400
                     /\ db' = db
                ELSE req'[r].pc # "done"]_vars

\* C9 witness: the trainer of the seeded database, whose workspace the migration
\* made, has submitted the trainer profile and the workspace carries its business name
ProfileResubmitted ==
    \E r \in Reqs :
        /\ req[r].pc = "done" /\ req[r].op = "profile" /\ req[r].status = 200
        /\ req[r].user = "u1"
        /\ served = 1 /\ Len(pets) = 1 /\ Len(workspaces) = 1
        /\ workspaces[1].trainerUserId = "u1"
        /\ workspaces[1].businessName = <<"A">>
        /\ users["u1"].role = "TRAINER" /\ users["u1"].onboardingComplete

\* the tokens GET /api/workspaces/invite may answer to user u in the current state
InviteTokens(u) == {workspaces[w].inviteToken : w \in getWorkspaceByTrainer(u)}

\* C10: no step changes the inviteToken or the trainerUserId of a workspace that
\* exists, and the token GET /api/workspaces/invite answers to a trainer stays the
\* one it was
WorkspaceIdentityStable ==
    [][/\ \A w \in WsIds :
             /\ w <= Len(workspaces')
             /\ workspaces'[w].inviteToken = workspaces[w].inviteToken
             /\ workspaces'[w].trainerUserId = workspaces[w].trainerUserId
       /\ \A u \in Users : InviteTokens(u) # {} => InviteTokens(u)' = InviteTokens(u)]_vars

\* the first half of C10 alone: the rows of table workspaces keep token and trainer
WorkspaceRowStable ==
    [][\A w \in WsIds :
          /\ w <= Len(workspaces')
          /\ workspaces'[w].inviteToken = workspaces[w].inviteToken
          /\ workspaces'[w].trainerUserId = workspaces[w].trainerUserId]_vars

\* C11: with the requests served one after the other, a pet request of a user whose
\* role is unset is answered 403 in its first step and adds no pet row, and when a
\* pet request is answered 201 the user is an OWNER with onboardingComplete = true
\* and the step that inserts the pet adds exactly one row, owned by the user
OwnerOnboardingCompletes ==
    [][\A r \in Reqs :
          /\ (Began(r) /\ req'[r].op = "pet" /\ users[req'[r].user].role = NoRole) =>
                /\ req'[r].pc = "done"
                /\ req'[r].status = 403
                /\ db' = db
          /\ (Began(r) /\ req'[r].op = "pet" /\ req'[r].pc # "done") =>
                users[req'[r].user].role = "OWNER"
          /\ (Answered(r) /\ req[r].op = "pet" /\ req'[r].status = 201) =>
                /\ users'[req[r].user].role = "OWNER"
                /\ users'[req[r].user].onboardingComplete
          /\ (InFlight(r) /\ req[r].op = "pet" /\ pets' # pets) =>
                /\ Len(pets') = Len(pets) + 1
                /\ pets'[Len(pets')].ownerId = req[r].user
                /\ req'[r].status \in {0, 201}]_vars

\* C11 witness: on a fresh database a user has joined a workspace (which left
\* onboardingComplete false) and has then created the first pet, which lies in
\* that workspace, and is now an onboarded OWNER
FirstPetOnboards ==
    \E r \in Reqs, w \in WsIds :
        /\ req[r].pc = "done" /\ req[r].op = "pet" /\ req[r].status = 201
        /\ BagIn(<<req[r].user, w>>, joined)
        /\ Len(pets) = 1
        /\ pets[1].ownerId = req[r].user /\ pets[1].workspaceId = w
        /\ pets[1].trainerId = workspaces[w].trainerUserId
        /\ users[req[r].user].role = "OWNER"
        /\ users[req[r].user].onboardingComplete

\* C12: a signed-in user with unset role and onboardingComplete = false whose
\* browser is at /join with the token of a workspace is shown the Join page with the
\* button that sends the join request
JoinPageForNewUser ==
    \A u \in Users :
        (/\ client[u].signedIn
         /\ client[u].user.role = NoRole
         /\ ~client[u].user.onboardingComplete
         /\ client[u].path = "/join"
         /\ getWorkspaceByToken(client[u].token) # {}) => JoinButton(client[u])

\* the browsers never send a join request for a user whose role is unset
NoJoinFromUnsetRole ==
    [][\A r \in Reqs :
          (Began(r) /\ req'[r].op = "join") => users[req'[r].user].role # NoRole]_vars

\* C13: while the user a browser holds is a signed-in OWNER with onboardingComplete
\* = false the page rendered is AddPet, whatever the path, and the Dashboard is
\* rendered only for a user with onboardingComplete = true
AddPetUntilOnboarded ==
    \A u \in Users :
        /\ (/\ client[u].signedIn
            /\ client[u].user.role = "OWNER"
            /\ ~client[u].user.onboardingComplete) => AuthenticatedRoutes(client[u]) = "AddPet"
        /\ AuthenticatedRoutes(client[u]) = "Dashboard" =>
               client[u].signedIn /\ client[u].user.onboardingComplete

\* C13 witness: a user who has joined a workspace and is not onboarded has the
\* browser at /dashboard and is shown AddPet
DashboardGated ==
    \E u \in Users, w \in WsIds :
        /\ BagIn(<<u, w>>, joined)
        /\ client[u].signedIn
        /\ client[u].user.role = "OWNER"
        /\ ~client[u].user.onboardingComplete
        /\ client[u].path = "/dashboard"
        /\ AuthenticatedRoutes(client[u]) = "AddPet"

\* the task id sent with the request that connection r carries in this step
TaskOf(r) == IF InFlight(r) THEN req[r].arg.taskId ELSE req'[r].arg.taskId

\* C14: a submission sent for a task whose isActive is false inserts no submission row and no
\* submission-media row and is answered with a 4xx status (unless a database call threw); a
\* submission sent by the owner of the pet for a task whose isActive is true is never refused.
ClosedTaskRejectsSubmission ==
    [][\A r \in Reqs :
         (req'[r] # req[r] /\ req'[r].op = "submission" /\ TaskOf(r) \in TaskIds)
         => IF ~tasks[TaskOf(r)].isActive
            THEN /\ submissions' = submissions
                 /\ media' = media
                 /\ req'[r].pc \in {"sub_get_task", "done"}
                 /\ req'[r].pc = "done"
                    => req'[r].status \in 400..499 \/ req'[r].body = Error("ServerError")
            ELSE (req'[r].pc = "done" /\ pets[tasks[TaskOf(r)].petId].ownerId = req'[r].user)
                 => req'[r].status = 201 \/ req'[r].body = Error("ServerError")]_vars

\* the task closed at the start has been reopened and the owner's submission for it accepted
ReopenedTaskAccepts ==
    \E r \in Reqs :
        /\ req[r].op = "submission" /\ req[r].pc = "done" /\ req[r].status = 201
        /\ tasks[1].isActive
        /\ Len(submissions) > 2 /\ submissions[Len(submissions)].taskId = 1
        /\ submissions[Len(submissions)].submittedByUserId = pets[tasks[1].petId].ownerId

\* the handlers behind requireTrainer
TrainerOps == {"task", "patch", "task_media", "task_media_delete", "comment"}

\* u may change the homework of the pet: a TRAINER or ADMIN who is its trainer or an ADMIN
MayTrain(u, petId) ==
    /\ users[u].role \in {"TRAINER", "ADMIN"}
    /\ pets[petId].trainerId = u \/ users[u].role = "ADMIN"

\* the pet a media row belongs to
PetOfMedia(row) ==
    IF row.table = "task_media" THEN tasks[row.parentId].petId
    ELSE IF row.table = "submission_media" THEN tasks[submissions[row.parentId].taskId].petId
    ELSE tasks[submissions'[comments'[row.parentId].submissionId].taskId].petId

\* a step of a handler in ops: every row it inserts, changes or deletes belongs to a pet the
\* requester may train, and a requester who may not train the pet named is answered 403
Authorised(ops) ==
    \A r \in Reqs :
        /\ (Began(r) /\ req'[r].op \in ops /\ ~requireTrainer(req'[r].user))
           => req'[r].pc = "done" /\ req'[r].status = 403 /\ db' = db
        /\ (InFlight(r) /\ req[r].op \in ops)
           => LET u == req[r].user IN
              /\ \A t \in 1..Len(tasks') :
                    (t \notin TaskIds \/ tasks'[t] # tasks[t]) => MayTrain(u, tasks'[t].petId)
              /\ \A c \in 1..Len(comments') :
                    c > Len(comments)
                    => MayTrain(u, tasks[submissions[comments'[c].submissionId].taskId].petId)
              /\ \A m \in 1..Len(media') :
                    (m > Len(media) \/ media'[m] # media[m])
                    => MayTrain(u, PetOfMedia(IF m > Len(media) THEN media'[m] ELSE media[m]))
              /\ (req[r].pc \in {"task_get_pet", "patch_get_pet", "tm_get_pet", "td_get_pet",
                                  "com_get_pet"}
                  /\ LET petId == IF req[r].op = "task" THEN req[r].arg.petId
                                  ELSE req[r].loc.petId
                     IN petId \in PetIds /\ ~MayTrain(u, petId))
                 => /\ req'[r].pc = "done"
                    /\ req'[r].status = 403 \/ req'[r].body = Error("ServerError")
                    /\ db' = db
              /\ users' = users /\ pets' = pets /\ submissions' = submissions

\* C20: every trainer-side mutation (create, update, close or reopen a task, add or delete
\* task media, comment on a submission) changes rows only of a pet whose assigned trainer the
\* requester is at that time, or when the requester is an ADMIN; every other requester is
\* answered 403 and no row changes.
TrainerMutationsAuthorised == [][Authorised(TrainerOps)]_vars

\* the same for every trainer-side handler but the deletion of task media
OtherMutationsAuthorised == [][Authorised(TrainerOps \ {"task_media_delete"})]_vars

\* the rows of the pet: its tasks, the submissions on them, the comments on those
TasksOfPet(p) == {t \in TaskIds : tasks[t].petId = p}
SubmissionsOfPet(p) == {i \in 1..Len(submissions) : submissions[i].taskId \in TasksOfPet(p)}
CommentsOfPet(p) == {c \in 1..Len(comments) : comments[c].submissionId \in SubmissionsOfPet(p)}

\* the timeline that connection r answers with in this step
Returned(r) == req[r].pc = "tl_sort" /\ req'[r].status = 200

\* how often the row id of the table named by type occurs in items
Occurrences(items, type, id) ==
    Cardinality({i \in DOMAIN items : items[i].type = type /\ items[i].id = id})

\* C15: the list getTimeline returns for a pet with T tasks, S submissions on them and C
\* comments on those has T + S + C items; every task, submission and comment of the pet is in
\* it exactly once, with its own date, and every item is a row of that pet.
TimelineComplete ==
    [][\A r \in Reqs :
         Returned(r)
         => LET items == req'[r].body.items
                p == req[r].arg.petId
            IN /\ Len(items) = Cardinality(TasksOfPet(p)) + Cardinality(SubmissionsOfPet(p))
                                + Cardinality(CommentsOfPet(p))
               /\ \A t \in TasksOfPet(p) : Occurrences(items, "task", t) = 1
               /\ \A i \in SubmissionsOfPet(p) : Occurrences(items, "submission", i) = 1
               /\ \A c \in CommentsOfPet(p) : Occurrences(items, "comment", c) = 1
               /\ \A i \in DOMAIN items :
                     \/ /\ items[i].type = "task" /\ items[i].id \in TasksOfPet(p)
                        /\ items[i].date = tasks[items[i].id].createdAt
                     \/ /\ items[i].type = "submission" /\ items[i].id \in SubmissionsOfPet(p)
                        /\ items[i].date = submissions[items[i].id].submittedAt
                     \/ /\ items[i].type = "comment" /\ items[i].id \in CommentsOfPet(p)
                        /\ items[i].date = comments[items[i].id].createdAt]_vars

\* a timeline with a task, a submission and a comment was returned while the other pet has
\* rows too
TimelineOfOnePet ==
    \E r \in Reqs, p \in PetIds :
        /\ req[r].op = "timeline" /\ req[r].pc = "done" /\ req[r].status = 200
        /\ \E t \in TasksOfPet(p) : Occurrences(req[r].body.items, "task", t) = 1
        /\ \E c \in CommentsOfPet(p) : Occurrences(req[r].body.items, "comment", c) = 1
        /\ \E q \in PetIds \ {p} : TasksOfPet(q) # {} /\ SubmissionsOfPet(q) # {}

\* the place of an item in the list the two loops built
PlaceIn(flat, item) == CHOOSE k \in DOMAIN flat : flat[k] = item

\* C16: the list getTimeline returns is in descending order of date, items of the same date
\* are in the order in which the two loops pushed them, and a task at t1, a submission at
\* t2 > t1 and a comment at t3 > t2 come out as comment, submission, task.
TimelineSorted ==
    [][\A r \in Reqs :
         Returned(r)
         => LET items == req'[r].body.items
                flat == req[r].loc.items
            IN /\ \A i, j \in DOMAIN items : i < j => items[i].date >= items[j].date
               /\ \A i, j \in DOMAIN items :
                     (i < j /\ items[i].date = items[j].date)
                     => PlaceIn(flat, items[i]) < PlaceIn(flat, items[j])
               /\ (/\ Len(flat) = 3
                   /\ flat[1].type = "task" /\ flat[2].type = "submission"
                   /\ flat[3].type = "comment"
                   /\ flat[1].date < flat[2].date /\ flat[2].date < flat[3].date)
                  => items = <<flat[3], flat[2], flat[1]>>]_vars

\* a timeline was returned with two items of the same date and two of different dates
TimelineWithTies ==
    \E r \in Reqs :
        /\ req[r].op = "timeline" /\ req[r].pc = "done" /\ req[r].status = 200
        /\ \E i, j \in DOMAIN req[r].body.items :
              /\ i + 1 < j
              /\ req[r].body.items[i].date > req[r].body.items[i + 1].date
              /\ req[r].body.items[j - 1].date = req[r].body.items[j].date
              /\ req[r].body.items[j - 1].type = req[r].body.items[j].type

\* the name of the weekday of a day
WeekdayName(day) == <<"Sun", "Mon", "Tue", "Wed", "Thu", "Fri", "Sat">>[(day % 7) + 1]

\* the scheduled tasks of the cell rendered last that have a submission filed on its day
Submitted ==
    {id \in cal.scheduled :
        \E i \in DOMAIN cal.submissions :
            /\ cal.submissions[i].taskId = id
            /\ cal.submissions[i].submittedAt \in {2 * cal.day, 2 * cal.day + 1}}

\* C17: the status of a day cell is 'none' when no task is scheduled on the day; otherwise
\* 'future' when the day starts after the instant of the rendering; otherwise 'complete',
\* 'partial' or 'missed' as all, some or none of the scheduled tasks have a submission filed
\* on that day. A task with preferredDays = [Mon, Wed] and a Monday without submissions
\* give 'missed' when the Monday has begun and 'future' when it has not.
StatusByPrecedence ==
    cal.shown
    => /\ cal.status = IF cal.scheduled = {} THEN "none"
                       ELSE IF 2 * cal.day > cal.at THEN "future"
                       ELSE IF Submitted = cal.scheduled THEN "complete"
                       ELSE IF Submitted # {} THEN "partial"
                       ELSE "missed"
       /\ (/\ WeekdayName(cal.day) = "Mon"
           /\ \E i \in DOMAIN cal.tasks :
                 cal.tasks[i].isActive /\ cal.tasks[i].preferredDays = <<"Mon", "Wed">>
           /\ \A i \in DOMAIN cal.submissions : cal.submissions[i].submittedAt \div 2 # cal.day)
          => cal.status = IF 2 * cal.day > cal.at THEN "future" ELSE "missed"

\* a Monday that has begun, with a task preferred on Mon and Wed and no submission: 'missed'
MondayMissed ==
    /\ cal.shown /\ WeekdayName(cal.day) = "Mon" /\ 2 * cal.day <= cal.at
    /\ cal.scheduled # {}
    /\ \A i \in DOMAIN cal.tasks : cal.tasks[i].preferredDays = <<"Mon", "Wed">>
    /\ cal.submissions = <<>>
    /\ cal.status = "missed"

\* the days of the week on which a frequency (in lower case) puts a task
DaysOfFrequency(freq) ==
    CASE freq = "3x/week" -> {"Mon", "Wed", "Fri"}
      [] freq = "2x/week" -> {"Tue", "Fri"}
      [] freq = "weekly" -> {"Mon"}
      [] OTHER -> {"Sun", "Mon", "Tue", "Wed", "Thu", "Fri", "Sat"}

\* the tasks in the cell rendered last are the open tasks that days(frequency) puts on its day
\* when they have no preferred days, and the open tasks that prefer its day otherwise
ScheduledBy(days(_)) ==
    cal.shown
    => \A i \in DOMAIN cal.tasks :
         LET task == cal.tasks[i]
         IN task.id \in cal.scheduled
            <=> /\ task.isActive
                /\ IF task.preferredDays # <<>>
                   THEN \E k \in DOMAIN task.preferredDays :
                           task.preferredDays[k] = WeekdayName(cal.day)
                   ELSE WeekdayName(cal.day) \in days(task.frequency)

\* C18 as stated: a task with preferred days is scheduled exactly on those weekdays; another
\* task by its frequency: 'daily' every day, '3x/week' on Mon/Wed/Fri, '2x/week' on Tue/Fri,
\* 'weekly' on Mon, every other value every day; only open tasks are scheduled.
ScheduledAsStated == ScheduledBy(DaysOfFrequency)

\* the frequency is compared in lower case, and the values written "per week" count
DaysOfFrequencyRead(frequency) ==
    LET freq == toLowerCase(frequency)
    IN DaysOfFrequency(IF freq = "3x per week" THEN "3x/week"
                       ELSE IF freq = "2x per week" THEN "2x/week" ELSE freq)

\* C18, amended: as stated, with the frequency compared without regard to case and with
\* '3x per week' read as '3x/week' and '2x per week' as '2x/week'.
ScheduledAsRead == ScheduledBy(DaysOfFrequencyRead)

\* a daily task that prefers Mon and Wed is not in the cell of a Tuesday
PreferredDaysOverride ==
    /\ cal.shown /\ WeekdayName(cal.day) = "Tue"
    /\ \E i \in DOMAIN cal.tasks :
          /\ cal.tasks[i].isActive /\ cal.tasks[i].frequency = "daily"
          /\ cal.tasks[i].preferredDays = <<"Mon", "Wed">>
          /\ cal.tasks[i].id \notin cal.scheduled
    /\ cal.scheduled # {}

AdminSubmitsForAnyPet ==
    [][\A r \in Reqs :
         (/\ InFlight(r) /\ req[r].op = "submission"
          /\ users[req[r].user].role = "ADMIN"
          /\ req'[r].pc = "done")
         => req'[r].status # 403]_vars

\* the requests of the workspace flow: a join, a trainer profile, the creation of a workspace
WorkspaceFlow == {"join", "profile", "create"}

\* C22: a role is assigned only by the workspace flow: every change of a user's role is a
\* step of a join (to OWNER) or of a trainer profile or workspace creation (to TRAINER) of
\* that user; no other request changes a role.
RoleOnlyByWorkspaceFlow ==
    [][\A u \in Users :
         users'[u].role # users[u].role
         => \E r \in Reqs :
              LET q == IF InFlight(r) THEN req[r] ELSE req'[r]
              IN /\ q.user = u /\ q.op \in WorkspaceFlow
                 /\ users'[u].role = IF q.op = "join" THEN "OWNER" ELSE "TRAINER"]_vars

\* C23: GET /api/timeline/:petId answers 404 for an unknown pet, the timeline (200) for the
\* owner of the pet, its assigned trainer and an ADMIN, and 403 for every other user.
TimelineAccess ==
    [][\A r \in Reqs :
         (/\ InFlight(r) /\ req[r].op = "timeline"
          /\ req'[r].pc = "done" /\ req'[r].status # 500)
         => LET p == req[r].arg.petId
                u == req[r].user
            IN req'[r].status =
                 IF p \notin PetIds THEN 404
                 ELSE IF pets[p].ownerId = u \/ pets[p].trainerId = u \/ users[u].role = "ADMIN"
                 THEN 200 ELSE 403]_vars

\* a trainer asked for the timeline of a pet of another trainer and was refused
TimelineRefused ==
    \E r \in Reqs :
        /\ req[r].op = "timeline" /\ req[r].pc = "done" /\ req[r].status = 403
        /\ users[req[r].user].role = "TRAINER"

\* C24: a submission is all or nothing: when POST /api/submissions is answered with a
\* failure, no submission row of that request is in the database.
SubmissionAllOrNothing ==
    [][\A r \in Reqs :
         (/\ InFlight(r) /\ req[r].op = "submission"
          /\ req'[r].pc = "done" /\ req'[r].status # 201)
         => req[r].loc.id \notin DOMAIN submissions']_vars

\* C25: submissions are immutable: no step of a task edit, a close or reopen, a
\* preferred-days update, a comment or a reassignment of the trainer changes or deletes a
\* submission row; the table only grows.
SubmissionsImmutable ==
    [][/\ Len(submissions') >= Len(submissions)
       /\ \A i \in DOMAIN submissions : submissions'[i] = submissions[i]]_vars

\* the task of the first submission got a new title and preferred days, and the submission
\* a comment
EditedAfterSubmission ==
    /\ Len(submissions) >= 2
    /\ LET task == tasks[submissions[1].taskId]
       IN task.title = "b" /\ task.preferredDays = <<"Mon", "Wed">>
    /\ \E c \in DOMAIN comments : comments[c].submissionId = 1

\* C26: concurrent updates of a task are last write wins per field: every write to a task row
\* is the update of one request applied to the row as it is at that moment, so the final row
\* is the result of the updates in the order of their writes, and a write leaves the fields
\* its request did not name as they are (a trainer edit leaves preferredDays, a
\* preferred-days update leaves title, frequency and isActive).
UpdatesWriteNamedFields ==
    [][\A t \in TaskIds :
         tasks'[t] # tasks[t]
         => \E r \in Reqs :
              LET arg == req[r].arg
                  Same(fields) == \A f \in fields : tasks'[t][f] = tasks[t][f]
              IN /\ InFlight(r) /\ req'[r].pc = "done" /\ arg.taskId = t
                 /\ Same({"petId", "createdByTrainerId", "frequency", "createdAt"})
                 /\ \/ /\ req[r].op = "patch"
                       /\ Same({"preferredDays"})
                       /\ IF arg.title = "undefined" THEN Same({"title"})
                          ELSE tasks'[t].title = arg.title
                       /\ IF arg.isActive = "undefined" THEN Same({"isActive"})
                          ELSE tasks'[t].isActive = (arg.isActive = "true")
                    \/ /\ req[r].op = "days"
                       /\ Same({"title", "isActive"})
                       /\ tasks'[t].preferredDays = arg.preferredDays]_vars

\* a trainer edit and a preferred-days update of the same task overlapped, and both wrote
OverlappingUpdates ==
    /\ served = 2
    /\ req["r1"].pc = "done" /\ req["r1"].status = 200
    /\ req["r2"].pc = "done" /\ req["r2"].status = 200
    /\ {req["r1"].op, req["r2"].op} = {"patch", "days"}
    /\ tasks[1].title = "b" /\ tasks[1].preferredDays = <<"Mon", "Wed">>

\* C27: under any interleaving of a submission with a close of its task, a submission row
\* is inserted only while the task is open.
SubmissionOnlyWhileOpen ==
    [][Len(submissions') > Len(submissions)
       => tasks[submissions'[Len(submissions')].taskId].isActive]_vars

\* C28: a join changes a role only from no role or OWNER: no step of a join request of a
\* user whose role is TRAINER or ADMIN changes that role, so the trainer of a workspace keeps
\* a role that passes requireTrainer.
JoinKeepsTrainerRole ==
    [][\A r \in Reqs :
         (/\ InFlight(r) /\ req[r].op = "join" /\ req'[r] # req[r]
          /\ \/ users[req[r].user].role = "ADMIN"
             \/ /\ users[req[r].user].role = "TRAINER"
                /\ getWorkspaceByTrainer(req[r].user) # {})
         => /\ users'[req[r].user].role = users[req[r].user].role
            /\ \A w \in WsIds : users'[workspaces[w].trainerUserId].role
                                  = users[workspaces[w].trainerUserId].role]_vars

\* C29: GET /api/submissions/:id answers with the submission only when the requester is the
\* owner of the pet of its task, the trainer assigned to that pet, or an ADMIN.
SubmissionAccess ==
    [][\A r \in Reqs :
         (/\ InFlight(r) /\ req[r].op = "get_submission"
          /\ req'[r].pc = "done" /\ req'[r].status = 200)
         => LET pet == pets[tasks[submissions[req[r].arg.submissionId].taskId].petId]
                u == req[r].user
            IN pet.ownerId = u \/ pet.trainerId = u \/ users[u].role = "ADMIN"]_vars

\* C30: once the startup migration has run, also when an earlier run was interrupted, every
\* TRAINER or ADMIN has exactly one workspace, with one TRAINER row for them in it, and every
\* other owner of a pet they train has one OWNER row in it. (The state is taken before the
\* first request.)
MigrationComplete ==
    (mig.pc = "done" /\ served = 0)
    => \A u \in DOMAIN users :
         users[u].role \in {"TRAINER", "ADMIN"}
         => /\ Cardinality(getWorkspaceByTrainer(u)) = 1
            /\ \A w \in getWorkspaceByTrainer(u) :
                 /\ CopiesIn([workspaceId |-> w, userId |-> u, role |-> "TRAINER"], members) = 1
                 /\ \A p \in PetIds :
                      (pets[p].trainerId = u /\ pets[p].ownerId # u)
                      => CopiesIn([workspaceId |-> w, userId |-> pets[p].ownerId,
                                   role |-> "OWNER"], members) = 1

====
